---- MODULE Spec2Model ----
(***************************************************************************)
(* Path extraction and field-mapping engine of the integration wizard      *)
(* (IntegrationWizard.jsx, IntegrationDetail.jsx, WizardStepMapping.jsx).  *)
(*                                                                         *)
(* JSON values are tagged records:                                         *)
(*   [t |-> "undef"]  [t |-> "null"]  [t |-> "bool", v |-> BOOLEAN]         *)
(*   [t |-> "num", v |-> Int]  [t |-> "str", v |-> STRING]                  *)
(*   [t |-> "arr", e |-> <<values>>]                                       *)
(*   [t |-> "obj", k |-> <<keys in insertion order>>, f |-> [key -> value]] *)
(* A path expression is a sequence of one-character strings, so that the   *)
(* split / includes / replace / parseInt steps of the resolver are         *)
(* computed rather than assumed.                                           *)
(***************************************************************************)
EXTENDS Integers, Sequences, FiniteSets, TLC

VARIABLES
    \* ---- path harness (getDataFromPath applied to one root and one path)
    pRoot, pPath, pResult, pPc,
    \* ---- mapping state of IntegrationWizard (useState)
    titleKey,               \* source key mapped to the product title, "" if none
    optionalFieldKeys,      \* [field id -> source key], a JavaScript object
    activeOptionalFields,   \* sequence of field ids the user opted into
    metafieldMappings,      \* sequence of metafield mapping records
    \* ---- transform harness (generatePreviewForProduct applied to one record)
    tProduct, tPreview, tDetailPreview, tPc,
    \* ---- the rest of the IntegrationWizard state
    step,                   \* 0 Basics, 1 Connection, 2 Mapping, 3 Preview, 4 Schedule
    remoteData,             \* raw downloaded document, Null before a download
    dataPath,               \* the data path typed in the connection step
    processedPreviewData,   \* the document after applying dataPath
    mappingOptions,         \* sequence of {label, value}
    dataPathError,          \* banner text, "" if none
    currentPreviewIndex,
    testStatus,             \* status of testConnectionMutation
    downloadStatus,         \* status of downloadMutation
    aiRequest,              \* the suggestMappings call in flight, with the values
                            \* its handleAiMapClick closure captured
    integration,            \* what handleSubmit passed to onFinish, if it ran
    \* ---- IntegrationContext
    integrations,           \* the list held by the reducer
    apiCalls,               \* the API calls of the context in flight
    \* ---- FTPService (services/ftp-client.js)
    connectionPool,         \* the module-level pool, a sequence of connections
    clients,                \* [client -> "unused", "connecting", "open" or "closed"]
    calls,                  \* the _withRetry calls, each at its await
    acquired                \* history: the clients _getConnection returned to each call

pathVars == <<pRoot, pPath, pResult, pPc>>
mappingVars == <<titleKey, optionalFieldKeys, activeOptionalFields, metafieldMappings>>
transformVars == <<tProduct, tPreview, tDetailPreview, tPc>>
dataVars == <<remoteData, dataPath, processedPreviewData, mappingOptions, dataPathError,
              currentPreviewIndex>>
mutationVars == <<testStatus, downloadStatus>>
wizardVars == <<step, dataVars, mutationVars, aiRequest>>
contextVars == <<integrations, apiCalls>>
ftpVars == <<connectionPool, clients, calls, acquired>>

vars == <<pathVars, mappingVars, transformVars, wizardVars, integration, contextVars, ftpVars>>

----------------------------------------------------------------------------
\* JSON value constructors and JavaScript primitives

Undef == [t |-> "undef"]
Null == [t |-> "null"]
Bool(b) == [t |-> "bool", v |-> b]
Num(n) == [t |-> "num", v |-> n]
Str(s) == [t |-> "str", v |-> s]
Arr(elems) == [t |-> "arr", e |-> elems]
Obj(keys, map) == [t |-> "obj", k |-> keys, f |-> map]

IsArray(x) == x.t = "arr"
IsNullish(x) == x.t \in {"undef", "null"}
\* typeof x === 'object'  (true for null, arrays and objects)
TypeofObject(x) == x.t \in {"null", "arr", "obj"}
\* JavaScript truthiness of a value
Truthy(x) ==
    CASE x.t = "undef" -> FALSE
      [] x.t = "null" -> FALSE
      [] x.t = "bool" -> x.v
      [] x.t = "num" -> x.v # 0
      [] x.t = "str" -> x.v # ""
      [] OTHER -> TRUE

RECURSIVE SeqToSet(_)
SeqToSet(s) == IF s = <<>> THEN {} ELSE {Head(s)} \cup SeqToSet(Tail(s))

\* Object.keys(x) for an object or an array (index strings)
ObjectKeys(x) ==
    CASE x.t = "obj" -> x.k
      [] x.t = "arr" -> [i \in 1..Len(x.e) |-> ToString(i - 1)]
      [] OTHER -> <<>>

\* x[key] for a non-nullish x and a string key
GetProp(x, key) ==
    CASE x.t = "obj" -> IF key \in DOMAIN x.f THEN x.f[key] ELSE Undef
      [] x.t = "arr" ->
            IF key = "length" THEN Num(Len(x.e))
            ELSE IF \E i \in 1..Len(x.e) : ToString(i - 1) = key
                 THEN x.e[CHOOSE i \in 1..Len(x.e) : ToString(i - 1) = key]
                 ELSE Undef
      [] x.t = "str" -> IF key = "length" THEN Num(Len(x.v)) ELSE Undef
      [] OTHER -> Undef

\* x[index] for an array x and a number index
GetIndex(x, index) ==
    IF index >= 0 /\ index < Len(x.e) THEN x.e[index + 1] ELSE Undef

----------------------------------------------------------------------------
\* String primitives over character sequences

RECURSIVE Join(_)
Join(cs) == IF cs = <<>> THEN "" ELSE Head(cs) \o Join(Tail(cs))

Includes(cs, c) == \E i \in 1..Len(cs) : cs[i] = c

\* String.prototype.split(sep) for a one-character separator
RECURSIVE SplitFrom(_, _, _)
SplitFrom(cs, sep, cur) ==
    IF cs = <<>> THEN <<cur>>
    ELSE IF Head(cs) = sep THEN <<cur>> \o SplitFrom(Tail(cs), sep, <<>>)
    ELSE SplitFrom(Tail(cs), sep, Append(cur, Head(cs)))

Split(cs, sep) == SplitFrom(cs, sep, <<>>)

\* String.prototype.replace(c, '') : removes the first occurrence of c
RECURSIVE ReplaceFirst(_, _)
ReplaceFirst(cs, c) ==
    IF cs = <<>> THEN <<>>
    ELSE IF Head(cs) = c THEN Tail(cs)
    ELSE <<Head(cs)>> \o ReplaceFirst(Tail(cs), c)

Digits == <<"0", "1", "2", "3", "4", "5", "6", "7", "8", "9">>
IsDigit(c) == \E d \in 1..10 : Digits[d] = c
DigitVal(c) == (CHOOSE d \in 1..10 : Digits[d] = c) - 1

RECURSIVE DigitPrefix(_, _, _)
DigitPrefix(cs, acc, seen) ==
    IF cs # <<>> /\ IsDigit(Head(cs))
    THEN DigitPrefix(Tail(cs), acc * 10 + DigitVal(Head(cs)), TRUE)
    ELSE [nan |-> ~seen, n |-> acc]

\* parseInt(s, 10): optional sign, then the longest prefix of digits; NaN if none
ParseInt(cs) ==
    IF cs # <<>> /\ Head(cs) = "-"
    THEN LET r == DigitPrefix(Tail(cs), 0, FALSE) IN [nan |-> r.nan, n |-> 0 - r.n]
    ELSE IF cs # <<>> /\ Head(cs) = "+" THEN DigitPrefix(Tail(cs), 0, FALSE)
    ELSE DigitPrefix(cs, 0, FALSE)

----------------------------------------------------------------------------
\* getDataFromPath (IntegrationWizard.jsx and IntegrationDetail.jsx carry the
\* same loop)

\* result.map(item => item?.[part])
MapOptionalProp(arr, part) ==
    Arr([j \in 1..Len(arr.e) |->
            IF IsNullish(arr.e[j]) THEN Undef ELSE GetProp(arr.e[j], part)])

IndexInRange_AllowsEqual(named, index) ==
    IsArray(named) /\ ~index.nan /\ Len(named.e) >= index.n

\* Array.isArray(result) && result.length > index   (NaN compares false)
IndexInRange(named, index) ==
    IsArray(named) /\ ~index.nan /\ Len(named.e) > index.n

ReturnResult_UnwrapsFirst(result) ==
    IF IsArray(result) /\ Len(result.e) > 0 THEN result.e[1] ELSE result

\* return result;  (arrays are preserved at the end of a path)
ReturnResult(result) == result

\* the for loop over parts, i is the 1-based position of the next part
RECURSIVE WalkParts(_, _, _)
WalkParts(parts, i, result) ==
    IF i > Len(parts) THEN ReturnResult(result)
    ELSE IF IsNullish(result) THEN Null
    ELSE LET part == parts[i] IN
        IF Includes(part, "[") /\ Includes(part, "]")
        THEN LET pieces == Split(part, "[")
                 arrayName == Join(pieces[1])
                 index == ParseInt(ReplaceFirst(pieces[2], "]"))
                 named == GetProp(result, arrayName)
             IN IF IndexInRange(named, index)
                THEN WalkParts(parts, i + 1, GetIndex(named, index.n))
                ELSE Null
        ELSE IF IsArray(result)
        THEN IF i < Len(parts)
             THEN WalkParts(parts, i + 2, MapOptionalProp(result, Join(part)))
             ELSE WalkParts(parts, i + 1, result)
        ELSE WalkParts(parts, i + 1, GetProp(result, Join(part)))

getDataFromPath(obj, path) ==
    IF path = <<>> THEN obj ELSE WalkParts(Split(path, "."), 1, obj)

----------------------------------------------------------------------------
\* JavaScript objects used as plain maps (previewData, optionalFieldKeys) are
\* TLA+ functions from key strings; the empty object is the empty function.

EmptyObject == <<>>
Assign(o, key, val) == [x \in (DOMAIN o) \cup {key} |-> IF x = key THEN val ELSE o[x]]
Delete(o, key) == [x \in (DOMAIN o) \ {key} |-> o[x]]
\* o[key] for a map of strings: the empty string stands for undefined
Lookup(o, key) == IF key \in DOMAIN o THEN o[key] ELSE ""

----------------------------------------------------------------------------
\* Field constants (IntegrationWizard.jsx) and the fieldConstants prop

FIELD_TITLE == "title"
FieldConstantNames ==
    << "FIELD_VENDOR", "FIELD_SEO_TITLE", "FIELD_SKU", "FIELD_COST",
       "FIELD_DESCRIPTION_HTML", "FIELD_HANDLE", "FIELD_PRODUCT_TYPE", "FIELD_TAGS",
       "FIELD_STATUS", "FIELD_SEO_DESCRIPTION", "FIELD_PUBLISHED_AT",
       "FIELD_REQUIRES_SELLING_PLAN", "FIELD_TEMPLATE_SUFFIX", "FIELD_BARCODE",
       "FIELD_PRICE", "FIELD_COMPARE_AT_PRICE", "FIELD_WEIGHT", "FIELD_WEIGHT_UNIT",
       "FIELD_INVENTORY_POLICY", "FIELD_INVENTORY_QUANTITY",
       "FIELD_INVENTORY_MANAGEMENT", "FIELD_TAXABLE", "FIELD_TAX_CODE",
       "FIELD_HARMONIZED_SYSTEM_CODE", "FIELD_REQUIRES_SHIPPING" >>
FieldConstantValues ==
    << "vendor", "seo.title", "sku", "inventoryItem.cost",
       "descriptionHtml", "handle", "productType", "tags",
       "status", "seo.description", "publishedAt",
       "requiresSellingPlan", "templateSuffix", "barcode",
       "price", "compareAtPrice", "weight", "weightUnit",
       "inventoryPolicy", "inventoryQuantity",
       "inventoryManagement", "taxable", "taxCode",
       "harmonizedSystemCode", "requiresShipping" >>
\* the fieldConstants prop: constant name -> constant value
fieldConstants ==
    [n \in SeqToSet(FieldConstantNames) |->
        FieldConstantValues[CHOOSE i \in 1..Len(FieldConstantNames) : FieldConstantNames[i] = n]]

Place(target, key) == [target |-> target, key |-> key]
RootPlacedValues ==
    { "title", "vendor", "productType", "tags", "status", "handle", "publishedAt",
      "requiresSellingPlan", "templateSuffix" }
InventoryPlacedValues ==
    { "sku", "barcode", "price", "compareAtPrice", "weight", "weightUnit",
      "inventoryPolicy", "inventoryQuantity", "inventoryManagement", "taxable",
      "taxCode", "harmonizedSystemCode", "requiresShipping" }
\* placement of a field given by its constant value
PlacementOfValue(v) ==
    CASE v = "descriptionHtml" -> Place("root", "bodyHtml")
      [] v \in RootPlacedValues -> Place("root", v)
      [] v = "seo.title" -> Place("seo", "title")
      [] v = "seo.description" -> Place("seo", "description")
      [] v = "inventoryItem.cost" -> Place("inventoryItem", "cost")
      [] v \in InventoryPlacedValues -> Place("inventoryItem", v)

\* FIELD_PLACEMENT_MAP of the wizard: keyed by the constant NAME
WizardPlacementMap ==
    [n \in {"FIELD_TITLE"} \cup SeqToSet(FieldConstantNames) |->
        IF n = "FIELD_TITLE" THEN Place("root", "title") ELSE PlacementOfValue(fieldConstants[n])]

\* FIELD_PLACEMENT_MAP of the integration detail page: keyed by constant value
\* and by constant name, without the seo.* and inventoryItem.cost entries
DetailUnplaced == {"seo.title", "seo.description", "inventoryItem.cost"}
DetailPlacementMap ==
    [k \in ({"title"} \cup (SeqToSet(FieldConstantValues) \ DetailUnplaced))
            \cup ({"FIELD_TITLE"} \cup
                  {n \in SeqToSet(FieldConstantNames) : fieldConstants[n] \notin DetailUnplaced}) |->
        IF k = "title" \/ k = "FIELD_TITLE" THEN Place("root", "title")
        ELSE IF k \in SeqToSet(FieldConstantValues) THEN PlacementOfValue(k)
        ELSE PlacementOfValue(fieldConstants[k])]

----------------------------------------------------------------------------
\* Metafield mappings

Mapping(id, mappingType, sourceKey, ns, key, type, aks, avs) ==
    [id |-> id, mappingType |-> mappingType, sourceKey |-> sourceKey,
     metafieldNamespace |-> ns, metafieldKey |-> key, metafieldType |-> type,
     arrayKeySource |-> aks, arrayValueSource |-> avs]

Metafield(ns, key, type, value) ==
    [namespace |-> ns, key |-> key, type |-> type, value |-> value]

\* the guard of the metafield loop, negated:
\*   if (!mapping.sourceKey || !sourceProduct[mapping.sourceKey]) return;
SourcePresent(sourceProduct, sourceKey) ==
    sourceKey # "" /\ Truthy(GetProp(sourceProduct, sourceKey))

\* item && typeof item === 'object' && item[arrayKeySource]
\*      && item[arrayValueSource] !== undefined
ItemContributes(item, mapping) ==
    /\ Truthy(item) /\ TypeofObject(item)
    /\ Truthy(GetProp(item, mapping.arrayKeySource))
    /\ GetProp(item, mapping.arrayValueSource) # Undef

RECURSIVE DynamicMetafields(_, _)
DynamicMetafields(items, mapping) ==
    IF items = <<>> THEN <<>>
    ELSE (IF ItemContributes(Head(items), mapping)
          THEN << Metafield(mapping.metafieldNamespace,
                            GetProp(Head(items), mapping.arrayKeySource),
                            mapping.metafieldType,
                            GetProp(Head(items), mapping.arrayValueSource)) >>
          ELSE <<>>) \o DynamicMetafields(Tail(items), mapping)

\* the body of metafieldMappings.forEach for one mapping: the pushed entries
MetafieldsOfMapping(sourceProduct, mapping) ==
    IF ~SourcePresent(sourceProduct, mapping.sourceKey) THEN <<>>
    ELSE LET sourceValue == GetProp(sourceProduct, mapping.sourceKey) IN
        IF mapping.mappingType = "single"
        THEN IF mapping.metafieldNamespace # "" /\ mapping.metafieldKey # ""
                    /\ mapping.metafieldType # ""
             THEN << Metafield(mapping.metafieldNamespace, Str(mapping.metafieldKey),
                               mapping.metafieldType, sourceValue) >>
             ELSE <<>>
        ELSE IF mapping.mappingType = "dynamic_from_array"
        THEN IF IsArray(sourceValue) /\ mapping.metafieldNamespace # ""
                    /\ mapping.arrayKeySource # "" /\ mapping.arrayValueSource # ""
                    /\ mapping.metafieldType # ""
             THEN DynamicMetafields(sourceValue.e, mapping)
             ELSE <<>>
        ELSE <<>>

RECURSIVE PreviewMetafields(_, _)
PreviewMetafields(sourceProduct, mappings) ==
    IF mappings = <<>> THEN <<>>
    ELSE MetafieldsOfMapping(sourceProduct, Head(mappings))
            \o PreviewMetafields(sourceProduct, Tail(mappings))

----------------------------------------------------------------------------
\* generatePreviewForProduct of the wizard (closes over the mapping state)

InvalidSource(sourceProduct) == ~Truthy(sourceProduct) \/ ~TypeofObject(sourceProduct)
ErrorPreview == [error |-> Str("Invalid source product data for preview.")]

\* previewData after one assignment at a placement
AssignPlaced(previewData, placement, value) ==
    IF placement.target = "root" THEN Assign(previewData, placement.key, value)
    ELSE Assign(previewData, placement.target,
                Assign(IF placement.target \in DOMAIN previewData
                       THEN previewData[placement.target] ELSE EmptyObject,
                       placement.key, value))

\* 1. the required title
WithTitle(previewData, sourceProduct, tKey) ==
    IF tKey # "" /\ GetProp(sourceProduct, tKey) # Undef
    THEN AssignPlaced(previewData, WizardPlacementMap["FIELD_TITLE"], GetProp(sourceProduct, tKey))
    ELSE Assign(previewData, "title", Undef)

\* 2. activeOptionalFields.forEach(fieldConstant => ...)
RECURSIVE WithOptionalFields(_, _, _, _)
WithOptionalFields(previewData, sourceProduct, optKeys, active) ==
    IF active = <<>> THEN previewData
    ELSE LET fieldConstant == Head(active)
             mappedKey == Lookup(optKeys, fieldConstant)
             next ==
                IF mappedKey # "" /\ GetProp(sourceProduct, mappedKey) # Undef
                        /\ fieldConstant \in DOMAIN WizardPlacementMap
                THEN AssignPlaced(previewData, WizardPlacementMap[fieldConstant],
                                  GetProp(sourceProduct, mappedKey))
                ELSE previewData
         IN WithOptionalFields(next, sourceProduct, optKeys, Tail(active))

DropEmptyGroups_KeepsSeo(previewData) ==
    IF previewData["inventoryItem"] = EmptyObject THEN Delete(previewData, "inventoryItem")
    ELSE previewData

\* delete previewData.seo / previewData.inventoryItem when empty
DropEmptyGroups(previewData) ==
    LET a == IF previewData["seo"] = EmptyObject THEN Delete(previewData, "seo") ELSE previewData
    IN IF a["inventoryItem"] = EmptyObject THEN Delete(a, "inventoryItem") ELSE a

WithMetafields(previewData, metafields) ==
    IF Len(metafields) > 0 THEN Assign(previewData, "metafields", metafields) ELSE previewData

generatePreviewForProduct(sourceProduct, tKey, optKeys, active, mappings) ==
    IF InvalidSource(sourceProduct) THEN ErrorPreview
    ELSE LET start == [seo |-> EmptyObject, inventoryItem |-> EmptyObject]
             titled == WithTitle(start, sourceProduct, tKey)
             mapped == WithOptionalFields(titled, sourceProduct, optKeys, active)
         IN WithMetafields(DropEmptyGroups(mapped), PreviewMetafields(sourceProduct, mappings))

----------------------------------------------------------------------------
\* handleSubmit: the persisted mapping object and metafield mappings

RECURSIVE FinalMappingFrom(_, _, _)
FinalMappingFrom(finalMapping, optKeys, active) ==
    IF active = <<>> THEN finalMapping
    ELSE LET field == Head(active)
             mappedKey == Lookup(optKeys, field)
             nested(group, key) ==
                Obj(finalMapping.k,
                    [finalMapping.f EXCEPT ![group] =
                        Obj(IF key \in DOMAIN @.f THEN @.k ELSE Append(@.k, key),
                            Assign(@.f, key, Str(mappedKey)))])
             next ==
                IF mappedKey = "" THEN finalMapping
                ELSE IF field = "seo.title" THEN nested("seo", "title")
                ELSE IF field = "seo.description" THEN nested("seo", "description")
                ELSE IF field = "inventoryItem.cost" THEN nested("inventoryItem", "cost")
                ELSE Obj(IF field \in DOMAIN finalMapping.f THEN finalMapping.k
                         ELSE Append(finalMapping.k, field),
                         Assign(finalMapping.f, field, Str(mappedKey)))
         IN FinalMappingFrom(next, optKeys, Tail(active))

RECURSIVE WithoutKey(_, _)
WithoutKey(keys, key) ==
    IF keys = <<>> THEN <<>>
    ELSE IF Head(keys) = key THEN WithoutKey(Tail(keys), key)
    ELSE <<Head(keys)>> \o WithoutKey(Tail(keys), key)

DeleteIfEmpty(o, group) ==
    IF group \in DOMAIN o.f /\ o.f[group].t = "obj" /\ o.f[group].k = <<>>
    THEN Obj(WithoutKey(o.k, group), Delete(o.f, group))
    ELSE o

FinalMapping(tKey, optKeys, active) ==
    LET start == Obj(<<FIELD_TITLE, "seo", "inventoryItem">>,
                     (FIELD_TITLE :> Str(tKey) @@ "seo" :> Obj(<<>>, EmptyObject)
                        @@ "inventoryItem" :> Obj(<<>>, EmptyObject)))
    IN DeleteIfEmpty(DeleteIfEmpty(FinalMappingFrom(start, optKeys, active), "seo"),
                     "inventoryItem")

\* metafieldMappings.map(...) of handleSubmit; a field that is not copied is ""
PersistedMetafieldMapping(mapping) ==
    IF mapping.mappingType = "dynamic_from_array"
    THEN Mapping("", "dynamic_from_array", mapping.sourceKey, mapping.metafieldNamespace,
                 "", mapping.metafieldType, mapping.arrayKeySource, mapping.arrayValueSource)
    ELSE Mapping("", "single", mapping.sourceKey, mapping.metafieldNamespace,
                 mapping.metafieldKey, mapping.metafieldType, "", "")

PersistedMetafieldMappings(mappings) ==
    [i \in 1..Len(mappings) |-> PersistedMetafieldMapping(mappings[i])]

----------------------------------------------------------------------------
\* generatePreviewForProduct of the integration detail page
\* (sourceProduct, integration.mapping, integration.metafieldMappings)

\* "First check for field constants directly in source data"
RECURSIVE WithSourceConstants(_, _, _)
WithSourceConstants(previewData, sourceProduct, keys) ==
    IF keys = <<>> THEN previewData
    ELSE LET key == Head(keys)
             next == IF key \in DOMAIN DetailPlacementMap
                     THEN AssignPlaced(previewData, DetailPlacementMap[key],
                                       GetProp(sourceProduct, key))
                     ELSE previewData
         IN WithSourceConstants(next, sourceProduct, Tail(keys))

\* Object.entries(group).forEach(([field, sourceKey]) => ...) for seo / inventoryItem
RECURSIVE WithNestedEntries(_, _, _, _, _)
WithNestedEntries(previewData, sourceProduct, group, entries, keys) ==
    IF keys = <<>> THEN previewData
    ELSE LET field == Head(keys)
             sourceKey == GetProp(entries, field)
             value == IF sourceKey.t = "str" THEN GetProp(sourceProduct, sourceKey.v) ELSE Undef
             next == IF value # Undef
                     THEN AssignPlaced(previewData, Place(group, field), value)
                     ELSE previewData
         IN WithNestedEntries(next, sourceProduct, group, entries, Tail(keys))

\* Object.entries(mapping).forEach(([target, sourceKey]) => ...)
RECURSIVE WithMappingEntries(_, _, _, _)
WithMappingEntries(previewData, sourceProduct, mapping, targets) ==
    IF targets = <<>> THEN previewData
    ELSE LET target == Head(targets)
             sourceKey == GetProp(mapping, target)
             value == IF sourceKey.t = "str" THEN GetProp(sourceProduct, sourceKey.v) ELSE Undef
             next ==
                IF target \in {"seo", "inventoryItem"} /\ TypeofObject(sourceKey)
                THEN WithNestedEntries(previewData, sourceProduct, target, sourceKey,
                                       ObjectKeys(sourceKey))
                ELSE IF value # Undef
                THEN IF target \in DOMAIN DetailPlacementMap
                     THEN AssignPlaced(previewData, DetailPlacementMap[target], value)
                     ELSE Assign(previewData, target, value)
                ELSE previewData
         IN WithMappingEntries(next, sourceProduct, mapping, Tail(targets))

generatePreviewForProductDetail(sourceProduct, mapping, mappings) ==
    IF InvalidSource(sourceProduct) THEN ErrorPreview
    ELSE LET start == [seo |-> EmptyObject, inventoryItem |-> EmptyObject]
             seeded == WithSourceConstants(start, sourceProduct, ObjectKeys(sourceProduct))
             mapped == IF ~IsNullish(mapping) /\ Len(ObjectKeys(mapping)) > 0
                       THEN WithMappingEntries(seeded, sourceProduct, mapping, ObjectKeys(mapping))
                       ELSE seeded
         IN WithMetafields(DropEmptyGroups(mapped), PreviewMetafields(sourceProduct, mappings))

----------------------------------------------------------------------------
\* processRemoteData (IntegrationWizard.jsx).  The function reads titleKey,
\* optionalFieldKeys and dataPathError from the render that created it (cur),
\* and queues the state updates; the result is the state after the batch.

ErrNotReadable == "Downloaded data is not in a readable format (expected JSON object/array or text)."
ErrNotSuitable == "Data at the specified path is not suitable for mapping (must be an object or array of objects)."
ErrNoFields == "No mappable fields found in the data object at the specified path."
ErrNoData == "The specified Data Path resulted in no data. Check the path and the source file."
ErrEmptyRoot == "The source file appears empty or is not a valid JSON object/array at the root."

\* extractMappingOptions
extractMappingOptions(obj) ==
    IF ~Truthy(obj) \/ ~TypeofObject(obj) THEN <<>>
    ELSE [i \in 1..Len(ObjectKeys(obj)) |->
            [label |-> ObjectKeys(obj)[i], value |-> ObjectKeys(obj)[i]]]

OptionValues(options) == { options[i].value : i \in 1..Len(options) }

RECURSIVE FilterSeq(_, _)
FilterSeq(seq, keep) ==
    IF seq = <<>> THEN <<>>
    ELSE (IF Head(seq) \in keep THEN <<Head(seq)>> ELSE <<>>) \o FilterSeq(Tail(seq), keep)

\* autoSelectKey / checkAndSetKey: the value of the key after the call
autoSelectKey(currentKey, options) ==
    IF currentKey = "" /\ Len(options) > 0 THEN options[1].value
    ELSE IF currentKey # "" /\ currentKey \notin OptionValues(options) THEN ""
    ELSE currentKey

\* the state record processRemoteData works on
CurrentState ==
    [titleKey |-> titleKey, optionalFieldKeys |-> optionalFieldKeys,
     activeOptionalFields |-> activeOptionalFields, metafieldMappings |-> metafieldMappings,
     processedPreviewData |-> processedPreviewData, mappingOptions |-> mappingOptions,
     dataPathError |-> dataPathError, currentPreviewIndex |-> currentPreviewIndex]

\* setTitleKey(''); setOptionalFieldKeys({}); setActiveOptionalFields([])
ResetStandardKeys(st) ==
    [st EXCEPT !.titleKey = "", !.optionalFieldKeys = EmptyObject,
               !.activeOptionalFields = <<>>]

\* ... followed by setMetafieldMappings([])
ResetAllKeys(st) == [ResetStandardKeys(st) EXCEPT !.metafieldMappings = <<>>]

ReconcileMapping_ResetsRow(mapping, valid) ==
    IF mapping.sourceKey # "" /\ mapping.sourceKey \notin valid
    THEN [mapping EXCEPT !.sourceKey = "", !.metafieldNamespace = "", !.metafieldKey = ""]
    ELSE mapping

\* the callback of prevMappings.map: an invalid sourceKey is cleared, the row is kept
ReconcileMapping(mapping, valid) ==
    IF mapping.sourceKey # "" /\ mapping.sourceKey \notin valid
    THEN [mapping EXCEPT !.sourceKey = ""]
    ELSE mapping

\* the branch options.length > 0 : reconcile every key with the new options
ReconcileWithOptions(cur, st, options) ==
    LET valid == OptionValues(options) IN
    [st EXCEPT
        !.titleKey = autoSelectKey(cur.titleKey, options),
        !.optionalFieldKeys =
            [field \in DOMAIN st.optionalFieldKeys |->
                IF st.optionalFieldKeys[field] # "" /\ st.optionalFieldKeys[field] \notin valid
                THEN "" ELSE st.optionalFieldKeys[field]],
        !.activeOptionalFields =
            FilterSeq(st.activeOptionalFields,
                      { field \in SeqToSet(st.activeOptionalFields) :
                            /\ Lookup(cur.optionalFieldKeys, field) # ""
                            /\ Lookup(cur.optionalFieldKeys, field) \in valid }),
        !.metafieldMappings =
            [i \in 1..Len(st.metafieldMappings) |->
                ReconcileMapping(st.metafieldMappings[i], valid)]]

processRemoteData(cur, dataToProcess, currentDataPath) ==
    LET cleared == [cur EXCEPT !.dataPathError = "", !.mappingOptions = <<>>,
                               !.processedPreviewData = Null]
    IN
    IF IsNullish(dataToProcess) THEN cleared
    ELSE IF ~TypeofObject(dataToProcess) /\ dataToProcess.t # "str"
    THEN [cleared EXCEPT !.dataPathError = ErrNotReadable,
                         !.processedPreviewData = dataToProcess]
    ELSE
    LET extractedData == getDataFromPath(dataToProcess, currentDataPath)
        extracted == [cleared EXCEPT !.processedPreviewData = extractedData]
        singleObject == extractedData.t = "obj"
        arrayOfObjects == /\ IsArray(extractedData) /\ Len(extractedData.e) > 0
                          /\ TypeofObject(extractedData.e[1])
        objectForMapping ==
            IF singleObject THEN extractedData
            ELSE IF arrayOfObjects THEN extractedData.e[1]
            ELSE Null
        \* the first if / else-if chain (objectForMapping and the shape error)
        shaped ==
            IF singleObject THEN extracted
            ELSE IF arrayOfObjects THEN [extracted EXCEPT !.currentPreviewIndex = 0]
            ELSE IF extractedData # Null
            THEN [ResetStandardKeys(extracted) EXCEPT !.dataPathError = ErrNotSuitable]
            ELSE extracted
        options == extractMappingOptions(objectForMapping)
    IN
    IF Truthy(objectForMapping)
    THEN IF Len(options) > 0
         THEN ReconcileWithOptions(cur, [shaped EXCEPT !.mappingOptions = options], options)
         ELSE [ResetAllKeys(shaped) EXCEPT !.mappingOptions = options,
                                           !.dataPathError = ErrNoFields]
    ELSE IF extractedData = Null /\ currentDataPath # <<>>
    THEN [ResetAllKeys(shaped) EXCEPT !.dataPathError = ErrNoData]
    ELSE IF extractedData = Null /\ currentDataPath = <<>>
    THEN [ResetAllKeys(shaped) EXCEPT !.dataPathError = ErrEmptyRoot]
    ELSE IF cur.dataPathError # "" /\ ~Truthy(objectForMapping)
    THEN [shaped EXCEPT !.metafieldMappings = <<>>]
    ELSE shaped

\* the wizard state after the queued updates of processRemoteData
ApplyState(st) ==
    /\ titleKey' = st.titleKey
    /\ optionalFieldKeys' = st.optionalFieldKeys
    /\ activeOptionalFields' = st.activeOptionalFields
    /\ metafieldMappings' = st.metafieldMappings
    /\ processedPreviewData' = st.processedPreviewData
    /\ mappingOptions' = st.mappingOptions
    /\ dataPathError' = st.dataPathError
    /\ currentPreviewIndex' = st.currentPreviewIndex

----------------------------------------------------------------------------
\* Path harness: one root document and one path expression, resolved once

MaxSegs == 3

SegItems == <<"i", "t", "e", "m", "s">>
SegA == <<"a">>
PathSegments ==
    { SegItems, SegA, <<>>,
      SegItems \o <<"[", "0", "]">>,
      SegItems \o <<"[", "1", "]">>,
      SegItems \o <<"[", "5", "]">>,
      SegItems \o <<"[", "x", "]">>,
      SegA \o <<"[", "0", "]">>,
      <<"[", "0", "]">> }

RECURSIVE JoinSegs(_)
JoinSegs(segs) ==
    IF segs = <<>> THEN <<>>
    ELSE IF Len(segs) = 1 THEN segs[1]
    ELSE segs[1] \o <<".">> \o JoinSegs(Tail(segs))

PathExpressions ==
    { JoinSegs(segs) : segs \in UNION { [1..n -> PathSegments] : n \in 0..MaxSegs } }

ItemA(n) == Obj(<<"a">>, [a |-> Num(n)])
RootItems == Obj(<<"items">>, [items |-> Arr(<<ItemA(1), ItemA(2)>>)])
RootEmptyItems == Obj(<<"items">>, [items |-> Arr(<<>>)])
RootMixedItems ==
    Obj(<<"items", "a">>,
        [items |-> Arr(<<Obj(<<"a">>, [a |-> ItemA(7)]), Null, Obj(<<"b">>, [b |-> Num(3)])>>),
         a |-> Arr(<<Num(1), Num(2)>>)])
RootNested ==
    Obj(<<"a", "items">>,
        [a |-> Obj(<<"items", "a">>, [items |-> Arr(<<ItemA(4)>>), a |-> Null]),
         items |-> Num(0)])
RootEmptyKey == Obj(<<"", "a">>, ("" :> Num(1) @@ "a" :> Bool(FALSE)))
RootArray == Arr(<<Obj(<<"a", "items">>, [a |-> Num(1), items |-> Arr(<<ItemA(9)>>)]), ItemA(2)>>)

PathRoots ==
    { RootItems, RootEmptyItems, RootMixedItems, RootNested, RootEmptyKey,
      RootArray, Null, Str("txt") }

\* initial optionalFieldKeys without initialData: every constant value -> ""
InitialOptionalFieldKeys == [v \in SeqToSet(FieldConstantValues) |-> ""]

MappingInit ==
    /\ titleKey = ""
    /\ optionalFieldKeys = InitialOptionalFieldKeys
    /\ activeOptionalFields = <<>>
    /\ metafieldMappings = <<>>

Pending == [pending |-> TRUE]

TransformIdle ==
    /\ tProduct = Null
    /\ tPreview = Pending
    /\ tDetailPreview = Pending
    /\ tPc = "idle"

NoRequest == [pending |-> FALSE]
NotSubmitted == [submitted |-> FALSE]

\* the context without integrations and without calls in flight
ContextIdle ==
    /\ integrations = <<>>
    /\ apiCalls = {}

\* bounds of the FTPService model: concurrent _withRetry calls and FTPClient objects
MaxCalls == 3
MaxClients == 4

Calls == 1..MaxCalls
FtpClients == 1..MaxClients

\* a _withRetry call that has not been made
NoCall == [pc |-> "idle", attempt |-> 0, host |-> "", client |-> 0, i |-> 0]

\* the FTP service with an empty pool and no call in flight
FtpIdle ==
    /\ connectionPool = <<>>
    /\ clients = [k \in FtpClients |-> "unused"]
    /\ calls = [c \in Calls |-> NoCall]
    /\ acquired = [c \in Calls |-> {}]

WizardDataInit ==
    /\ integration = NotSubmitted
    /\ step = 0
    /\ remoteData = Null
    /\ dataPath = <<>>
    /\ processedPreviewData = Null
    /\ mappingOptions = <<>>
    /\ dataPathError = ""
    /\ currentPreviewIndex = 0
    /\ testStatus = "idle"
    /\ downloadStatus = "idle"
    /\ aiRequest = NoRequest

PathInit ==
    /\ pRoot \in PathRoots
    /\ pPath \in PathExpressions
    /\ pResult = Undef
    /\ pPc = "start"
    /\ MappingInit
    /\ TransformIdle
    /\ WizardDataInit
    /\ ContextIdle
    /\ FtpIdle

PathIdle ==
    /\ pRoot = Null
    /\ pPath = <<>>
    /\ pResult = Undef
    /\ pPc = "idle"

ResolvePath ==
    /\ pPc = "start"
    /\ pResult' = getDataFromPath(pRoot, pPath)
    /\ pPc' = "done"
    /\ UNCHANGED <<pRoot, pPath, mappingVars, transformVars, wizardVars,
                   integration, contextVars, ftpVars>>

SpecPath == PathInit /\ [][ResolvePath]_vars

----------------------------------------------------------------------------
\* Transform harness: one source record and one mapping state; the wizard
\* preview and the detail preview of the integration saved from that state

MaxFields == 2
MaxMetafields == 2

UserFields == { FieldConstantNames[i] : i \in 1..MaxFields }

RecWidget ==
    Obj(<<"sku", "title", "price">>,
        [sku |-> Str("X1"), title |-> Str("Widget"), price |-> Num(9)])
RecFalsy ==
    Obj(<<"title", "inStock", "count", "sku">>,
        [title |-> Str(""), inStock |-> Bool(FALSE), count |-> Num(0), sku |-> Null])
KV(k, v) == Obj(<<"k", "v">>, [k |-> k, v |-> v])
RecSpecProps ==
    Obj(<<"props">>,
        [props |-> Arr(<<KV(Str("a"), Num(1)), Obj(<<"k">>, [k |-> Str("b")])>>)])
RecProps ==
    Obj(<<"title", "props">>,
        [title |-> Str("P"),
         props |-> Arr(<<KV(Str("a"), Num(1)), KV(Num(0), Num(2)), Null, Num(5),
                         KV(Str(""), Num(3)), KV(Str("c"), Bool(FALSE)),
                         Obj(<<"v">>, [v |-> Num(4)])>>)])
TransformRecords == { RecWidget, RecFalsy, RecSpecProps, RecProps, Null, Str("x") }

TransformTitleKeys == {"", "title", "sku"}
TransformFieldKeys == {"", "sku", "price"}
SingleOn(sourceKey) ==
    Mapping("", "single", sourceKey, "custom", "flag", "boolean", "", "")
DynamicOn(sourceKey) ==
    Mapping("", "dynamic_from_array", sourceKey, "custom", "", "single_line_text_field", "k", "v")
TransformMappings ==
    { SingleOn("inStock"), SingleOn("count"), SingleOn("title"),
      DynamicOn("props"), DynamicOn("title") }

NoDuplicates(seq) == \A i, j \in 1..Len(seq) : seq[i] = seq[j] => i = j
ActiveChoices == { a \in UNION { [1..n -> UserFields] : n \in 0..MaxFields } : NoDuplicates(a) }
WithIds(mappings) == [i \in 1..Len(mappings) |-> [mappings[i] EXCEPT !.id = ToString(i)]]

TransformInit ==
    /\ tProduct \in TransformRecords
    /\ titleKey \in TransformTitleKeys
    /\ activeOptionalFields \in ActiveChoices
    /\ \E chosen \in [UserFields -> TransformFieldKeys] :
            optionalFieldKeys =
                [f \in DOMAIN InitialOptionalFieldKeys \cup SeqToSet(activeOptionalFields) |->
                    IF f \in SeqToSet(activeOptionalFields) THEN chosen[f] ELSE ""]
    /\ \E n \in 0..MaxMetafields : \E ms \in [1..n -> TransformMappings] :
            metafieldMappings = WithIds(ms)
    /\ tPreview = Pending
    /\ tDetailPreview = Pending
    /\ tPc = "start"
    /\ PathIdle
    /\ WizardDataInit
    /\ ContextIdle
    /\ FtpIdle

\* mappedPreviewData of the wizard for the record
WizardPreview ==
    /\ tPc = "start"
    /\ tPreview = Pending
    /\ tPreview' = generatePreviewForProduct(tProduct, titleKey, optionalFieldKeys,
                                              activeOptionalFields, metafieldMappings)
    /\ UNCHANGED <<tProduct, tDetailPreview, tPc, mappingVars, pathVars, wizardVars,
                   integration, contextVars, ftpVars>>

\* mappedPreviewData of the detail page for the integration built by handleSubmit
DetailPreview ==
    /\ tPc = "start"
    /\ tDetailPreview = Pending
    /\ tDetailPreview' =
            generatePreviewForProductDetail(tProduct,
                FinalMapping(titleKey, optionalFieldKeys, activeOptionalFields),
                PersistedMetafieldMappings(metafieldMappings))
    /\ UNCHANGED <<tProduct, tPreview, tPc, mappingVars, pathVars, wizardVars,
                   integration, contextVars, ftpVars>>

SpecTransform == TransformInit /\ [][WizardPreview \/ DetailPreview]_vars

----------------------------------------------------------------------------
\* The wizard: connection step (test, download, data path), navigation

SegProducts == <<"p", "r", "o", "d", "u", "c", "t", "s">>
SegCount == <<"c", "o", "u", "n", "t">>
SegMissing == <<"i", "t", "e", "m", "s">>
\* the data paths the user types
DataPaths ==
    { <<>>, SegProducts, SegProducts \o <<"[", "5", "]">>, SegCount, SegMissing }

Product(sku, title) == Obj(<<"sku", "title">>, [sku |-> Str(sku), title |-> Str(title)])
DocCatalog ==
    Obj(<<"products", "count">>,
        [products |-> Arr(<<Product("X1", "Widget"), Null>>),
         count |-> Num(2)])
DocFeed ==
    Obj(<<"products", "count">>,
        [products |-> Arr(<<Null, Product("X3", "Gizmo")>>), count |-> Num(1)])
\* the documents the FTP download returns
Documents == { DocCatalog, DocFeed }

isConnectionStepLoading == testStatus = "pending" \/ downloadStatus = "pending"

\* isNextDisabled (name, credentials and frequency are filled in)
isNextDisabled ==
    \/ step = 1 /\ testStatus # "success" /\ downloadStatus # "success"
    \/ step = 2 /\ (titleKey = "" \/ Len(mappingOptions) = 0)

\* onError of testConnectionMutation and of downloadMutation
ClearDownloadedData ==
    /\ remoteData' = Null
    /\ processedPreviewData' = Null
    /\ mappingOptions' = <<>>
    /\ dataPathError' = ""

\* handleTestConnectionClick
TestConnectionClick ==
    /\ step = 1 /\ ~isConnectionStepLoading
    /\ testStatus' = "pending"
    /\ UNCHANGED <<downloadStatus, step, dataVars, aiRequest, mappingVars, pathVars, transformVars,
                   integration, contextVars, ftpVars>>

\* testConnectionMutation.onSuccess : starts the download
TestConnectionSuccess ==
    /\ testStatus = "pending"
    /\ testStatus' = "success"
    /\ downloadStatus' = "pending"
    /\ UNCHANGED <<step, dataVars, aiRequest, mappingVars, pathVars, transformVars,
                   integration, contextVars, ftpVars>>

\* testConnectionMutation.onError
TestConnectionError ==
    /\ testStatus = "pending"
    /\ testStatus' = "error"
    /\ ClearDownloadedData
    /\ UNCHANGED <<downloadStatus, step, dataPath, currentPreviewIndex, aiRequest,
                   mappingVars, pathVars, transformVars, integration, contextVars, ftpVars>>

\* downloadMutation.onSuccess : setRemoteData(data); processRemoteData(data, dataPath)
DownloadSuccess ==
    /\ downloadStatus = "pending"
    /\ \E data \in Documents :
            /\ remoteData' = data
            /\ ApplyState(processRemoteData(CurrentState, data, dataPath))
    /\ downloadStatus' = "success"
    /\ UNCHANGED <<testStatus, step, dataPath, aiRequest, pathVars, transformVars,
                   integration, contextVars, ftpVars>>

\* downloadMutation.onError
DownloadError ==
    /\ downloadStatus = "pending"
    /\ downloadStatus' = "error"
    /\ ClearDownloadedData
    /\ UNCHANGED <<testStatus, step, dataPath, currentPreviewIndex, aiRequest,
                   mappingVars, pathVars, transformVars, integration, contextVars, ftpVars>>

\* setDataPath from the data path field, then the effect on [dataPath]:
\*   if (remoteData !== null) processRemoteData(remoteData, dataPath)
EditDataPath ==
    /\ step = 1 /\ ~isConnectionStepLoading /\ remoteData # Null
    /\ \E path \in DataPaths \ {dataPath} :
            /\ dataPath' = path
            /\ ApplyState(processRemoteData(CurrentState, remoteData, path))
    /\ UNCHANGED <<remoteData, step, mutationVars, aiRequest, pathVars, transformVars,
                   integration, contextVars, ftpVars>>

\* onFinish navigates to the dashboard: the wizard is unmounted after handleSubmit
WizardMounted == integration = NotSubmitted

\* handleNext
HandleNext ==
    /\ step < 4 /\ ~isNextDisabled /\ ~isConnectionStepLoading
    /\ step' = step + 1
    /\ UNCHANGED <<dataVars, mutationVars, aiRequest, mappingVars, pathVars, transformVars,
                   integration, contextVars, ftpVars>>

\* handleBack (the button is disabled on the first step)
HandleBack ==
    /\ WizardMounted
    /\ step > 0 /\ ~isConnectionStepLoading
    /\ step' = step - 1
    /\ UNCHANGED <<dataVars, mutationVars, aiRequest, mappingVars, pathVars, transformVars,
                   integration, contextVars, ftpVars>>

\* handleSubmit (the Finish button of the last step): the integration it builds
HandleSubmit ==
    /\ WizardMounted
    /\ step = 4 /\ ~isNextDisabled /\ ~isConnectionStepLoading
    /\ integration' =
            [submitted |-> TRUE,
             dataPath |-> dataPath,
             mapping |-> FinalMapping(titleKey, optionalFieldKeys, activeOptionalFields),
             metafieldMappings |-> PersistedMetafieldMappings(metafieldMappings)]
    /\ UNCHANGED <<wizardVars, mappingVars, pathVars, transformVars, contextVars, ftpVars>>

ConnectionNext ==
    \/ TestConnectionClick
    \/ TestConnectionSuccess
    \/ TestConnectionError
    \/ DownloadSuccess
    \/ DownloadError
    \/ EditDataPath
    \/ HandleNext
    \/ HandleBack
    \/ HandleSubmit

----------------------------------------------------------------------------
\* The wizard: mapping step (WizardStepMapping.jsx)

MaxRows == 1

\* the optional fields the user adds from the popover (keys of allOptionalFieldsConfig)
WizardFields == { "FIELD_VENDOR" }

\* the processedPreviewData prop of WizardStepMapping: the first item of an array
MappingStepData(data) ==
    IF IsArray(data) /\ Len(data.e) > 0 THEN data.e[1] ELSE data

\* the selects are rendered only when there are mapping options
MappingFormShown == step = 2 /\ Len(mappingOptions) > 0

isArrayOfObjects(data) ==
    IsArray(data) /\ Len(data.e) > 0 /\ TypeofObject(data.e[1]) /\ data.e[1] # Null

\* Select onChange={setTitleKey}
SetTitleKey ==
    /\ MappingFormShown
    /\ \E key \in OptionValues(mappingOptions) : titleKey' = key
    /\ UNCHANGED <<optionalFieldKeys, activeOptionalFields, metafieldMappings,
                   wizardVars, pathVars, transformVars, integration, contextVars, ftpVars>>

\* handleAddField
HandleAddField ==
    /\ MappingFormShown
    /\ \E fieldKey \in WizardFields \ SeqToSet(activeOptionalFields) :
            activeOptionalFields' = Append(activeOptionalFields, fieldKey)
    /\ UNCHANGED <<titleKey, optionalFieldKeys, metafieldMappings,
                   wizardVars, pathVars, transformVars, integration, contextVars, ftpVars>>

\* handleRemoveField
HandleRemoveField ==
    /\ MappingFormShown
    /\ \E fieldKey \in SeqToSet(activeOptionalFields) \cap DOMAIN fieldConstants :
            /\ optionalFieldKeys' = Assign(optionalFieldKeys, fieldKey, "")
            /\ activeOptionalFields' =
                    FilterSeq(activeOptionalFields, SeqToSet(activeOptionalFields) \ {fieldKey})
    /\ UNCHANGED <<titleKey, metafieldMappings, wizardVars, pathVars, transformVars,
                   integration, contextVars, ftpVars>>

\* the setter of allOptionalFieldsConfig[fieldKey], called by the field's Select
SetOptionalFieldKey ==
    /\ MappingFormShown
    /\ \E fieldKey \in SeqToSet(activeOptionalFields) \cap DOMAIN fieldConstants :
       \E key \in OptionValues(mappingOptions) :
            optionalFieldKeys' = Assign(optionalFieldKeys, fieldKey, key)
    /\ UNCHANGED <<titleKey, activeOptionalFields, metafieldMappings,
                   wizardVars, pathVars, transformVars, integration, contextVars, ftpVars>>

\* Date.now().toString() : an id no row of the list carries
FreshId(rows) ==
    ToString(CHOOSE n \in 1..(Len(rows) + 1) :
                /\ \A i \in 1..Len(rows) : rows[i].id # ToString(n)
                /\ \A k \in 1..(n - 1) : \E i \in 1..Len(rows) : rows[i].id = ToString(k))

\* handleAddMetafieldMapping with the form filled in; the effect on the selected
\* source key has set the form type and the choices for the array key / value
HandleAddMetafieldMapping ==
    /\ MappingFormShown
    /\ Len(metafieldMappings) < MaxRows
    /\ \E sourceKey \in OptionValues(mappingOptions) :
         LET data == MappingStepData(processedPreviewData)
             selectedData == IF Truthy(data) THEN GetProp(data, sourceKey) ELSE Undef
             id == FreshId(metafieldMappings)
         IN IF Truthy(data) /\ isArrayOfObjects(selectedData)
            THEN LET arrayObjectKeys == ObjectKeys(selectedData.e[1])
                 IN \E a, b \in 1..Len(arrayObjectKeys) :
                    /\ a < b
                    /\ metafieldMappings' = Append(metafieldMappings,
                        Mapping(id, "dynamic_from_array", sourceKey, "custom", "",
                                "single_line_text_field",
                                arrayObjectKeys[a], arrayObjectKeys[b]))
            ELSE metafieldMappings' = Append(metafieldMappings,
                        Mapping(id, "single", sourceKey, "custom", "flag",
                                "single_line_text_field", "", ""))
    /\ UNCHANGED <<titleKey, optionalFieldKeys, activeOptionalFields,
                   wizardVars, pathVars, transformVars, integration, contextVars, ftpVars>>

\* handleRemoveMetafieldMapping
HandleRemoveMetafieldMapping ==
    /\ MappingFormShown
    /\ \E i \in 1..Len(metafieldMappings) :
            metafieldMappings' =
                LET kept == { j \in 1..Len(metafieldMappings) :
                                metafieldMappings[j].id # metafieldMappings[i].id }
                IN [n \in 1..Cardinality(kept) |->
                        metafieldMappings[CHOOSE j \in kept :
                            Cardinality({x \in kept : x < j}) = n - 1]]
    /\ UNCHANGED <<titleKey, optionalFieldKeys, activeOptionalFields,
                   wizardVars, pathVars, transformVars, integration, contextVars, ftpVars>>

----------------------------------------------------------------------------
\* handleAiMapClick: the request, and the application of the response with the
\* mappingOptions and processedPreviewData the callback closed over

Suggestion(tKey, optionalEntries, hasMetafields, mappings) ==
    [titleKey |-> tKey, optionalFieldKeys |-> optionalEntries,
     hasMetafieldMappings |-> hasMetafields, metafieldMappings |-> mappings]

SuggestedSingle == Mapping("", "single", "sku", "custom", "code", "single_line_text_field", "", "")
SuggestedDynamic ==
    Mapping("", "dynamic_from_array", "products", "custom", "", "single_line_text_field",
            "sku", "title")
\* suggestions the filter has to drop: no metafieldKey, a sourceKey that is not
\* an option, an arrayKeySource the array's objects do not have
SuggestedWithoutKey ==
    Mapping("", "single", "sku", "custom", "", "single_line_text_field", "", "")
SuggestedUnknownSource ==
    Mapping("", "single", "bogus", "custom", "code", "single_line_text_field", "", "")
SuggestedBadArrayKey ==
    Mapping("", "dynamic_from_array", "products", "custom", "", "single_line_text_field",
            "bogus", "title")
\* the responses of suggestMappings
AiSuggestions ==
    { Suggestion(s[1], s[2], m[1], m[2]) :
        s \in { <<"", <<>> >>,
                <<"title", << <<"FIELD_VENDOR", "sku">>, <<"vendor", "sku">>,
                              <<"FIELD_SKU", "bogus">> >> >> },
        m \in { <<FALSE, <<>> >>,
                <<TRUE, <<SuggestedWithoutKey, SuggestedSingle>> >>,
                <<TRUE, <<SuggestedBadArrayKey, SuggestedDynamic, SuggestedUnknownSource>> >> } }

ValidSuggestedMapping_AnyArrayKey(mf, availableSourceKeys, data) ==
    /\ mf.mappingType # "" /\ mf.sourceKey # "" /\ mf.metafieldNamespace # ""
    /\ mf.metafieldType # ""
    /\ mf.sourceKey \in availableSourceKeys
    /\ mf.mappingType = "single" => mf.metafieldKey # ""
    /\ mf.mappingType = "dynamic_from_array" =>
            /\ mf.arrayKeySource # "" /\ mf.arrayValueSource # ""
            /\ isArrayOfObjects(GetProp(data, mf.sourceKey))

\* the filter of suggested.metafieldMappings
ValidSuggestedMapping(mf, availableSourceKeys, data) ==
    /\ mf.mappingType # "" /\ mf.sourceKey # "" /\ mf.metafieldNamespace # ""
    /\ mf.metafieldType # ""
    /\ mf.sourceKey \in availableSourceKeys
    /\ mf.mappingType = "single" => mf.metafieldKey # ""
    /\ mf.mappingType = "dynamic_from_array" =>
            /\ mf.arrayKeySource # "" /\ mf.arrayValueSource # ""
            /\ isArrayOfObjects(GetProp(data, mf.sourceKey))
            /\ mf.arrayKeySource \in SeqToSet(ObjectKeys(GetProp(data, mf.sourceKey).e[1]))
            /\ mf.arrayValueSource \in SeqToSet(ObjectKeys(GetProp(data, mf.sourceKey).e[1]))

RECURSIVE ValidOptionalEntries(_, _)
ValidOptionalEntries(entries, availableSourceKeys) ==
    IF entries = <<>> THEN <<>>
    ELSE (IF Head(entries)[1] \in DOMAIN fieldConstants /\ Head(entries)[2] \in availableSourceKeys
          THEN <<Head(entries)>> ELSE <<>>)
            \o ValidOptionalEntries(Tail(entries), availableSourceKeys)

RECURSIVE MergeOptionalKeys(_, _)
MergeOptionalKeys(keys, entries) ==
    IF entries = <<>> THEN keys
    ELSE MergeOptionalKeys(Assign(keys, Head(entries)[1], Head(entries)[2]), Tail(entries))

\* [...new Set([...prev, ...newActiveFields])]
RECURSIVE AppendNew(_, _)
AppendNew(active, entries) ==
    IF entries = <<>> THEN active
    ELSE AppendNew(IF Head(entries)[1] \in SeqToSet(active) THEN active
                   ELSE Append(active, Head(entries)[1]), Tail(entries))

RECURSIVE AiRows(_, _, _, _)
AiRows(mappings, index, availableSourceKeys, data) ==
    IF mappings = <<>> THEN <<>>
    ELSE (IF ValidSuggestedMapping(Head(mappings), availableSourceKeys, data)
          THEN << [Head(mappings) EXCEPT !.id = "ai-" \o ToString(index)] >>
          ELSE <<>>) \o AiRows(Tail(mappings), index + 1, availableSourceKeys, data)

\* 3. Apply Metafield Mappings
AiMetafieldMappings(prev, suggested, availableSourceKeys, data) ==
    IF suggested.hasMetafieldMappings
    THEN AiRows(suggested.metafieldMappings, 0, availableSourceKeys, data)
    ELSE <<>>

\* the button "Map with AI"
AiMapClick ==
    /\ MappingFormShown
    /\ Truthy(MappingStepData(processedPreviewData))
    /\ ~aiRequest.pending
    /\ aiRequest' = [pending |-> TRUE, mappingOptions |-> mappingOptions,
                     processedPreviewData |-> MappingStepData(processedPreviewData)]
    /\ UNCHANGED <<step, dataVars, mutationVars, mappingVars, pathVars, transformVars,
                   integration, contextVars, ftpVars>>

\* the mapping state handleAiMapClick leaves for a response, after the await
AiMapResult(request, suggested) ==
    LET availableSourceKeys == OptionValues(request.mappingOptions)
        entries == ValidOptionalEntries(suggested.optionalFieldKeys, availableSourceKeys)
    IN [titleKey |-> IF suggested.titleKey # "" /\ suggested.titleKey \in availableSourceKeys
                     THEN suggested.titleKey ELSE titleKey,
        optionalFieldKeys |-> MergeOptionalKeys(optionalFieldKeys, entries),
        activeOptionalFields |-> AppendNew(activeOptionalFields, entries),
        metafieldMappings |->
            AiMetafieldMappings(metafieldMappings, suggested, availableSourceKeys,
                                request.processedPreviewData)]

\* the continuation of handleAiMapClick after await suggestMappings(...)
AiMapApply ==
    /\ WizardMounted
    /\ aiRequest.pending
    /\ \E suggested \in AiSuggestions :
         LET result == AiMapResult(aiRequest, suggested)
         IN /\ titleKey' = result.titleKey
            /\ optionalFieldKeys' = result.optionalFieldKeys
            /\ activeOptionalFields' = result.activeOptionalFields
            /\ metafieldMappings' = result.metafieldMappings
    /\ aiRequest' = NoRequest
    /\ UNCHANGED <<step, dataVars, mutationVars, pathVars, transformVars,
                   integration, contextVars, ftpVars>>

\* suggestMappings rejects, or the response is not an object: the catch block
AiMapError ==
    /\ WizardMounted
    /\ aiRequest.pending
    /\ aiRequest' = NoRequest
    /\ UNCHANGED <<step, dataVars, mutationVars, mappingVars, pathVars, transformVars,
                   integration, contextVars, ftpVars>>

MappingNext ==
    \/ SetTitleKey
    \/ HandleAddField
    \/ HandleRemoveField
    \/ SetOptionalFieldKey
    \/ HandleAddMetafieldMapping
    \/ HandleRemoveMetafieldMapping
    \/ AiMapClick
    \/ AiMapApply
    \/ AiMapError

----------------------------------------------------------------------------
\* The wizard: preview step (mappedPreviewData, WizardStepPreview.jsx)

\* if (sourceForCurrentIndex) return generatePreviewForProduct(...) else { info }
PreviewOfSource(sourceForCurrentIndex) ==
    IF Truthy(sourceForCurrentIndex)
    THEN generatePreviewForProduct(sourceForCurrentIndex, titleKey, optionalFieldKeys,
                                   activeOptionalFields, metafieldMappings)
    ELSE [info |-> Str("No source data found for the current preview index.")]

\* the memoized mapped preview for the current index
mappedPreviewData ==
    IF ~Truthy(processedPreviewData) THEN [info |-> Str("No data processed yet.")]
    ELSE IF IsArray(processedPreviewData)
    THEN IF Len(processedPreviewData.e) > currentPreviewIndex
         THEN PreviewOfSource(processedPreviewData.e[currentPreviewIndex + 1])
         ELSE [error |-> Str("Preview index out of bounds.")]
    ELSE IF TypeofObject(processedPreviewData) /\ currentPreviewIndex = 0
    THEN PreviewOfSource(processedPreviewData)
    ELSE IF currentPreviewIndex # 0
    THEN [error |-> Str("Preview navigation not possible for non-array data.")]
    ELSE [info |-> Str("Data is not an object or array, cannot generate mapped preview.")]

totalItems ==
    IF IsArray(processedPreviewData) THEN Len(processedPreviewData.e)
    ELSE IF Truthy(processedPreviewData) THEN 1 ELSE 0

\* handlePrevious of WizardStepPreview (the button is disabled unless canGoPrevious)
PreviewHandlePrevious ==
    /\ step = 3
    /\ IsArray(processedPreviewData) /\ totalItems > 1 /\ currentPreviewIndex > 0
    /\ currentPreviewIndex' = IF currentPreviewIndex - 1 > 0 THEN currentPreviewIndex - 1 ELSE 0
    /\ UNCHANGED <<step, remoteData, dataPath, processedPreviewData, mappingOptions,
                   dataPathError, mutationVars, aiRequest, mappingVars, pathVars,
                   transformVars, integration, contextVars, ftpVars>>

\* handleNext of WizardStepPreview (the button is disabled unless canGoNext)
PreviewHandleNext ==
    /\ step = 3
    /\ IsArray(processedPreviewData) /\ totalItems > 1
    /\ currentPreviewIndex < totalItems - 1
    /\ currentPreviewIndex' = IF currentPreviewIndex + 1 < totalItems - 1
                              THEN currentPreviewIndex + 1 ELSE totalItems - 1
    /\ UNCHANGED <<step, remoteData, dataPath, processedPreviewData, mappingOptions,
                   dataPathError, mutationVars, aiRequest, mappingVars, pathVars,
                   transformVars, integration, contextVars, ftpVars>>

WizardInit ==
    /\ MappingInit
    /\ WizardDataInit
    /\ PathIdle
    /\ TransformIdle
    /\ ContextIdle
    /\ FtpIdle

Next == ConnectionNext \/ MappingNext \/ PreviewHandlePrevious \/ PreviewHandleNext

Spec == WizardInit /\ [][Next]_vars

----------------------------------------------------------------------------
\* Option discovery: a download that settles with any document while any
\* data path is typed in (processRemoteData on a wizard without mapping)

\* a document with an array of arrays and an array that starts with null
DocGrid ==
    Obj(<<"items", "a">>,
        [items |-> Arr(<<Arr(<<Num(1), Num(2)>>), Arr(<<Num(3)>>)>>),
         a |-> Arr(<<Null, ItemA(1)>>)])

DiscoveryDocuments == PathRoots \cup { DocGrid }

\* the connection step while the download runs, the mapping still empty
DiscoveryInit ==
    /\ MappingInit
    /\ PathIdle
    /\ TransformIdle
    /\ ContextIdle
    /\ FtpIdle
    /\ integration = NotSubmitted
    /\ step = 1
    /\ remoteData = Null
    /\ dataPath \in PathExpressions
    /\ processedPreviewData = Null
    /\ mappingOptions = <<>>
    /\ dataPathError = ""
    /\ currentPreviewIndex = 0
    /\ testStatus = "success"
    /\ downloadStatus = "pending"
    /\ aiRequest = NoRequest

\* downloadMutation.onSuccess with the documents of the harness
DiscoveryDownload ==
    /\ downloadStatus = "pending"
    /\ \E data \in DiscoveryDocuments :
            /\ remoteData' = data
            /\ ApplyState(processRemoteData(CurrentState, data, dataPath))
    /\ downloadStatus' = "success"
    /\ UNCHANGED <<testStatus, step, dataPath, aiRequest, pathVars, transformVars,
                   integration, contextVars, ftpVars>>

SpecDiscovery == DiscoveryInit /\ [][DiscoveryDownload]_vars

----------------------------------------------------------------------------
\* The wizard opened by IntegrationEditor with a saved integration as
\* initialData: the useState initialisers of the mapping state

\* x?.[key]
OptionalProp(x, key) == IF IsNullish(x) THEN Undef ELSE GetProp(x, key)

\* the source key stored in a mapping entry ('' when the entry is not a string)
SourceKeyOf(entry) == IF entry.t = "str" THEN entry.v ELSE ""

\* initialData?.mapping ?? {}
MappingOf(initialData) ==
    IF IsNullish(initialData.mapping) THEN Obj(<<>>, EmptyObject) ELSE initialData.mapping

\* the array the initialiser of optionalFieldKeys walks (insertion order of its keys)
InitialFieldOrder ==
    << "descriptionHtml", "vendor", "handle", "productType", "tags", "status",
       "seo.title", "seo.description", "publishedAt", "requiresSellingPlan",
       "templateSuffix", "sku", "barcode", "price", "compareAtPrice", "weight",
       "weightUnit", "inventoryPolicy", "inventoryQuantity", "inventoryManagement",
       "taxable", "taxCode", "harmonizedSystemCode", "requiresShipping",
       "inventoryItem.cost" >>

\* the entry of initialData.mapping the initialisers read for a field
\* (the nested place first, then mapping[field]); undefined when there is none
InitialEntry(mapping, field) ==
    IF field = "seo.title" /\ Truthy(OptionalProp(GetProp(mapping, "seo"), "title"))
    THEN GetProp(GetProp(mapping, "seo"), "title")
    ELSE IF field = "seo.description"
                /\ Truthy(OptionalProp(GetProp(mapping, "seo"), "description"))
    THEN GetProp(GetProp(mapping, "seo"), "description")
    ELSE IF field = "inventoryItem.cost"
                /\ Truthy(OptionalProp(GetProp(mapping, "inventoryItem"), "cost"))
    THEN GetProp(GetProp(mapping, "inventoryItem"), "cost")
    ELSE IF Truthy(GetProp(mapping, field)) THEN GetProp(mapping, field)
    ELSE Undef

\* useState(initialData?.mapping?.[FIELD_TITLE] ?? '')
InitialTitleKey(initialData) ==
    LET entry == GetProp(MappingOf(initialData), FIELD_TITLE)
    IN IF IsNullish(entry) THEN "" ELSE SourceKeyOf(entry)

\* the initialiser of optionalFieldKeys
InitialKeysFrom(initialData) ==
    [field \in SeqToSet(InitialFieldOrder) |->
        SourceKeyOf(InitialEntry(MappingOf(initialData), field))]

\* the initialiser of activeOptionalFields
RECURSIVE InitialActiveFrom(_, _)
InitialActiveFrom(initialData, fields) ==
    IF fields = <<>> THEN <<>>
    ELSE (IF InitialEntry(MappingOf(initialData), Head(fields)) # Undef
                /\ InitialKeysFrom(initialData)[Head(fields)] # ""
          THEN <<Head(fields)>> ELSE <<>>)
            \o InitialActiveFrom(initialData, Tail(fields))

\* useState(initialData?.metafieldMappings ?? [])
InitialMetafieldMappings(initialData) == initialData.metafieldMappings

\* integrations the context got from the server, mapped under StandardFieldId values
SavedMapping(keys, entries) ==
    [submitted |-> TRUE, dataPath |-> <<>>, mapping |-> Obj(keys, entries),
     metafieldMappings |-> <<>>]
FetchedIntegrations ==
    { SavedMapping(<<"title", "vendor">>, [title |-> Str("title"), vendor |-> Str("sku")]),
      SavedMapping(<<"title", "seo", "inventoryItem">>,
                   [title |-> Str("title"),
                    seo |-> Obj(<<"title">>, [title |-> Str("title")]),
                    inventoryItem |-> Obj(<<"cost">>, [cost |-> Str("price")])]) }

\* the wizard on its last step, before Finish is pressed
EditInit ==
    /\ tProduct \in TransformRecords
    /\ titleKey \in TransformTitleKeys \ {""}
    /\ activeOptionalFields \in ActiveChoices
    /\ \E chosen \in [UserFields -> TransformFieldKeys] :
            optionalFieldKeys =
                [f \in DOMAIN InitialOptionalFieldKeys \cup SeqToSet(activeOptionalFields) |->
                    IF f \in SeqToSet(activeOptionalFields) THEN chosen[f] ELSE ""]
    /\ \E n \in 0..MaxMetafields : \E ms \in [1..n -> TransformMappings] :
            metafieldMappings = WithIds(ms)
    /\ tPreview = Pending
    /\ tDetailPreview = Pending
    /\ tPc = "start"
    /\ PathIdle
    /\ ContextIdle
    /\ FtpIdle
    /\ integration = NotSubmitted
    /\ step = 4
    /\ remoteData = Null
    /\ dataPath = <<>>
    /\ processedPreviewData = Null
    /\ mappingOptions = <<>>
    /\ dataPathError = ""
    /\ currentPreviewIndex = 0
    /\ testStatus = "idle"
    /\ downloadStatus = "idle"
    /\ aiRequest = NoRequest

\* IntegrationEditor mounts a new wizard with initialData: the integration
\* handed to onFinish or one the context fetched
OpenEditor ==
    /\ step = 4
    /\ \E initialData \in (IF integration.submitted THEN {integration} ELSE {})
                                \cup FetchedIntegrations :
            /\ titleKey' = InitialTitleKey(initialData)
            /\ optionalFieldKeys' = InitialKeysFrom(initialData)
            /\ activeOptionalFields' = InitialActiveFrom(initialData, InitialFieldOrder)
            /\ metafieldMappings' = InitialMetafieldMappings(initialData)
            /\ dataPath' = initialData.dataPath
    /\ step' = 0
    /\ integration' = NotSubmitted
    /\ tPreview' = Pending
    /\ tDetailPreview' = Pending
    /\ UNCHANGED <<tProduct, tPc, remoteData, processedPreviewData, mappingOptions,
                   dataPathError, currentPreviewIndex, mutationVars, aiRequest,
                   pathVars, contextVars, ftpVars>>

SpecEdit == EditInit /\ [][HandleSubmit \/ OpenEditor \/ WizardPreview]_vars

----------------------------------------------------------------------------
\* IntegrationContext.jsx: the reducer and the helpers that call the API

MaxIntegrations == 2

\* an integration, as far as the context looks at it: its id and its content
Integration(id, content) == [id |-> id, content |-> content]

reducer(state, action) ==
    CASE action.type = "INIT" -> action.payload
      [] action.type = "ADD" -> Append(state, action.payload)
      [] action.type = "EDIT" ->
            [i \in 1..Len(state) |->
                IF state[i].id = action.payload.id THEN action.payload ELSE state[i]]
      [] action.type = "DELETE" ->
            LET kept == { i \in 1..Len(state) : state[i].id # action.payload }
            IN [n \in 1..Cardinality(kept) |->
                    state[CHOOSE i \in kept : Cardinality({j \in kept : j < i}) = n - 1]]
      [] OTHER -> state

\* the ids in use: in the list or in a call in flight
IdsInUse ==
    { integrations[i].id : i \in 1..Len(integrations) }
        \cup { call.integration.id : call \in { c \in apiCalls : c.op # "fetch" } }

\* Date.now().toString() of handleSubmit: an id no integration carries
ClientIds == { "c" \o ToString(n) : n \in 1..MaxIntegrations }

\* what the server answers to saveIntegrationConfig / updateIntegrationConfig:
\* a rejection, or a body {success, data}
ApiResponses(sent) ==
    { [thrown |-> TRUE, success |-> FALSE, data |-> Null],
      [thrown |-> FALSE, success |-> FALSE, data |-> Null],
      [thrown |-> FALSE, success |-> TRUE, data |-> Null],
      [thrown |-> FALSE, success |-> TRUE, data |-> Integration(sent.id, "server")],
      [thrown |-> FALSE, success |-> TRUE, data |-> Integration("s-" \o sent.id, "server")] }

\* if (response && response.success && response.data) dispatch EDIT
AfterResponse(state, response) ==
    IF ~response.thrown /\ response.success /\ response.data # Null
    THEN reducer(state, [type |-> "EDIT", payload |-> response.data])
    ELSE state

\* the mount effect: getIntegrationConfigs() resolves or rejects
FetchIntegrations ==
    /\ [op |-> "fetch"] \in apiCalls
    /\ \E outcome \in { <<FALSE, <<>> >>, <<TRUE, <<>> >>,
                         <<TRUE, <<Integration("s-0", "server")>> >> } :
            integrations' = IF outcome[1]
                            THEN reducer(integrations, [type |-> "INIT", payload |-> outcome[2]])
                            ELSE integrations
    /\ apiCalls' = apiCalls \ {[op |-> "fetch"]}
    /\ UNCHANGED <<pathVars, mappingVars, transformVars, wizardVars, integration, ftpVars>>

\* addIntegration until the await
AddIntegration ==
    /\ Len(integrations) < MaxIntegrations
    /\ \E id \in ClientIds \ IdsInUse :
         LET added == Integration(id, "client") IN
            /\ integrations' = reducer(integrations, [type |-> "ADD", payload |-> added])
            /\ apiCalls' = apiCalls \cup {[op |-> "save", integration |-> added]}
    /\ UNCHANGED <<pathVars, mappingVars, transformVars, wizardVars, integration, ftpVars>>

\* editIntegration until the await
EditIntegration ==
    /\ \E i \in 1..Len(integrations) :
         LET updated == Integration(integrations[i].id, "edited") IN
            /\ [op |-> "update", integration |-> updated] \notin apiCalls
            /\ integrations' = reducer(integrations, [type |-> "EDIT", payload |-> updated])
            /\ apiCalls' = apiCalls \cup {[op |-> "update", integration |-> updated]}
    /\ UNCHANGED <<pathVars, mappingVars, transformVars, wizardVars, integration, ftpVars>>

\* addIntegration / editIntegration after the await
ApiCallSettled ==
    /\ \E call \in { c \in apiCalls : c.op \in {"save", "update"} } :
       \E response \in ApiResponses(call.integration) :
            /\ integrations' = AfterResponse(integrations, response)
            /\ apiCalls' = apiCalls \ {call}
    /\ UNCHANGED <<pathVars, mappingVars, transformVars, wizardVars, integration, ftpVars>>

\* deleteIntegration until the await
DeleteIntegration ==
    /\ \E i \in 1..Len(integrations) :
         LET deleted == Integration(integrations[i].id, "deleted") IN
            /\ integrations' = reducer(integrations,
                                       [type |-> "DELETE", payload |-> integrations[i].id])
            /\ apiCalls' = apiCalls \cup {[op |-> "delete", integration |-> deleted]}
    /\ UNCHANGED <<pathVars, mappingVars, transformVars, wizardVars, integration, ftpVars>>

\* deleteIntegration after the await (resolved or rejected: nothing is dispatched)
DeleteSettled ==
    /\ \E call \in { c \in apiCalls : c.op = "delete" } : apiCalls' = apiCalls \ {call}
    /\ UNCHANGED <<integrations, pathVars, mappingVars, transformVars, wizardVars,
                   integration, ftpVars>>

\* the provider is mounted: the list comes from localStorage, the fetch is on its way
ContextInit ==
    /\ integrations \in { <<>>, <<Integration("s-0", "stored")>> }
    /\ apiCalls = {[op |-> "fetch"]}
    /\ FtpIdle
    /\ MappingInit
    /\ WizardDataInit
    /\ PathIdle
    /\ TransformIdle

ContextNext ==
    \/ FetchIntegrations
    \/ AddIntegration
    \/ EditIntegration
    \/ ApiCallSettled
    \/ DeleteIntegration
    \/ DeleteSettled

SpecContext == ContextInit /\ [][ContextNext]_vars

----------------------------------------------------------------------------
\* services/ftp-client.js: FTPService and its module-level connection pool.
\* Every action is the code between two awaits of one _withRetry call; calls
\* of several callers interleave at the awaits.

\* DEFAULT_CONFIG
connectionPoolSize == 2
maxRetries == 1

\* the hosts of the credentials the callers pass (user is compared like host)
Hosts == {"ftp-a", "ftp-b"}

UnusedClients == { k \in FtpClients : clients[k] = "unused" }

\* new FTPClient()
NewClient == CHOOSE k \in UnusedClients : \A j \in UnusedClients : k <= j

\* an attempt creates at most one FTPClient: attempts are started while the
\* clients of the model suffice for the attempts under way
AttemptsBeforeClient == { c \in Calls : calls[c].pc \in {"pwd", "splice"} }

CanAttempt == Cardinality(UnusedClients) > Cardinality(AttemptsBeforeClient)

\* connectionPool.splice(i, 1), i counted from 1; nothing goes when i is past the end
Splice(pool, i) ==
    IF i \in 1..Len(pool)
    THEN [j \in 1..(Len(pool) - 1) |-> IF j < i THEN pool[j] ELSE pool[j + 1]]
    ELSE pool

\* connectionPool.findIndex(conn => conn.client === client), 0 for -1
FindIndex(pool, client) ==
    LET found == { j \in 1..Len(pool) : pool[j].client = client }
    IN  IF found = {} THEN 0 ELSE CHOOSE j \in found : \A k \in found : j <= k

\* the index the loop of _getConnection stops at: the first connection that is
\* not in use and has the host of the credentials; 0 if the loop runs out
FirstAvailable(pool, host) ==
    LET free == { j \in 1..Len(pool) : ~pool[j].inUse /\ pool[j].host = host }
    IN  IF free = {} THEN 0 ELSE CHOOSE j \in free : \A k \in free : j <= k

\* _closeConnection up to its return: client.close() unless already closed
CloseConnection(cl, client) == [cl EXCEPT ![client] = "closed"]

\* _getConnection up to its first await: conn.client.pwd() of the connection
\* the loop marked in use, or client.access() of a new client
GetConnection(c, host, attempt) ==
    LET i == FirstAvailable(connectionPool, host) IN
    IF i # 0
    THEN /\ connectionPool' = [connectionPool EXCEPT ![i].inUse = TRUE]
         /\ calls' = [calls EXCEPT ![c] = [pc |-> "pwd", attempt |-> attempt, host |-> host,
                                           client |-> connectionPool[i].client, i |-> i]]
         /\ UNCHANGED clients
    ELSE /\ clients' = [clients EXCEPT ![NewClient] = "connecting"]
         /\ calls' = [calls EXCEPT ![c] = [pc |-> "access", attempt |-> attempt, host |-> host,
                                           client |-> NewClient, i |-> 0]]
         /\ UNCHANGED connectionPool

\* the end of the catch block of _withRetry and of its loop: wait for the
\* retry delay, or throw after the last attempt
AfterFailedAttempt(call) ==
    [call EXCEPT !.pc = IF call.attempt < maxRetries THEN "delay" ELSE "failed",
                 !.client = 0, !.i = 0]

\* a caller (downloadFile, listFiles, testConnection) calls _withRetry
WithRetry(c) ==
    /\ calls[c].pc = "idle"
    /\ CanAttempt
    /\ \E host \in Hosts : GetConnection(c, host, 0)
    /\ UNCHANGED <<acquired, pathVars, mappingVars, transformVars, wizardVars,
                   integration, contextVars>>

\* conn.client.pwd() resolved: _getConnection returns the pooled connection and
\* _withRetry calls the operation
PwdResolved(c) ==
    /\ calls[c].pc = "pwd"
    /\ calls' = [calls EXCEPT ![c].pc = "operation"]
    /\ acquired' = [acquired EXCEPT ![c] = @ \cup {calls[c].client}]
    /\ UNCHANGED <<connectionPool, clients, pathVars, mappingVars, transformVars,
                   wizardVars, integration, contextVars>>

\* conn.client.pwd() rejected: the stale connection is closed, up to the await
\* of _closeConnection
PwdRejected(c) ==
    /\ calls[c].pc = "pwd"
    /\ clients' = CloseConnection(clients, calls[c].client)
    /\ calls' = [calls EXCEPT ![c].pc = "splice"]
    /\ UNCHANGED <<connectionPool, acquired, pathVars, mappingVars, transformVars,
                   wizardVars, integration, contextVars>>

\* after that await: connectionPool.splice(i, 1), break, and a new client up to
\* the await of client.access()
SpliceStale(c) ==
    /\ calls[c].pc = "splice"
    /\ connectionPool' = Splice(connectionPool, calls[c].i)
    /\ clients' = [clients EXCEPT ![NewClient] = "connecting"]
    /\ calls' = [calls EXCEPT ![c].pc = "access", ![c].client = NewClient, ![c].i = 0]
    /\ UNCHANGED <<acquired, pathVars, mappingVars, transformVars, wizardVars,
                   integration, contextVars>>

\* client.access() resolved: the connection is pooled if the pool has room,
\* returned either way, and _withRetry calls the operation
AccessResolved(c) ==
    /\ calls[c].pc = "access"
    /\ clients' = [clients EXCEPT ![calls[c].client] = "open"]
    /\ connectionPool' =
           IF Len(connectionPool) < connectionPoolSize
           THEN Append(connectionPool, [client |-> calls[c].client, inUse |-> TRUE,
                                        host |-> calls[c].host])
           ELSE connectionPool
    /\ calls' = [calls EXCEPT ![c].pc = "operation"]
    /\ acquired' = [acquired EXCEPT ![c] = @ \cup {calls[c].client}]
    /\ UNCHANGED <<pathVars, mappingVars, transformVars, wizardVars, integration,
                   contextVars>>

\* client.access() rejected: _getConnection closes the client and throws;
\* _withRetry rethrows a wrong-password error and otherwise goes on to the
\* next attempt (connection is null in the catch block)
AccessRejected(c) ==
    /\ calls[c].pc = "access"
    /\ clients' = CloseConnection(clients, calls[c].client)
    /\ \E wrongPassword \in BOOLEAN :
         calls' = [calls EXCEPT ![c] =
                      IF wrongPassword THEN [@ EXCEPT !.pc = "aborted", !.client = 0]
                      ELSE AfterFailedAttempt(@)]
    /\ UNCHANGED <<connectionPool, acquired, pathVars, mappingVars, transformVars,
                   wizardVars, integration, contextVars>>

\* _releaseConnection
ReleaseConnection(pool, client) ==
    LET j == FindIndex(pool, client)
    IN  IF j = 0 THEN pool ELSE [pool EXCEPT ![j].inUse = FALSE]

\* operation(connection.client) resolved: the connection is released and the
\* result returned
OperationResolved(c) ==
    /\ calls[c].pc = "operation"
    /\ connectionPool' = ReleaseConnection(connectionPool, calls[c].client)
    /\ calls' = [calls EXCEPT ![c].pc = "returned"]
    /\ UNCHANGED <<clients, acquired, pathVars, mappingVars, transformVars, wizardVars,
                   integration, contextVars>>

\* operation(connection.client) rejected: a wrong-password error is rethrown at
\* once; any other error takes the connection out of the pool and closes it
\* (the continuation of the await of _closeConnection only clears the local
\* variable, so it is part of this action)
OperationRejected(c) ==
    /\ calls[c].pc = "operation"
    /\ \E wrongPassword \in BOOLEAN :
         IF wrongPassword
         THEN /\ calls' = [calls EXCEPT ![c].pc = "aborted"]
              /\ UNCHANGED <<connectionPool, clients>>
         ELSE /\ connectionPool' =
                     Splice(connectionPool, FindIndex(connectionPool, calls[c].client))
              /\ clients' = CloseConnection(clients, calls[c].client)
              /\ calls' = [calls EXCEPT ![c] = AfterFailedAttempt(@)]
    /\ UNCHANGED <<acquired, pathVars, mappingVars, transformVars, wizardVars,
                   integration, contextVars>>

\* the retry delay elapsed: the next attempt, up to the first await of
\* _getConnection
DelayElapsed(c) ==
    /\ calls[c].pc = "delay"
    /\ CanAttempt
    /\ GetConnection(c, calls[c].host, calls[c].attempt + 1)
    /\ UNCHANGED <<acquired, pathVars, mappingVars, transformVars, wizardVars,
                   integration, contextVars>>

\* the pool after splice(j, 1) for every j of a set of indices, from the end down
WithoutIndices(pool, gone) ==
    LET kept == (1..Len(pool)) \ gone
        nth(k) == CHOOSE j \in kept : Cardinality({ m \in kept : m <= j }) = k
    IN  [k \in 1..Cardinality(kept) |-> pool[nth(k)]]

\* cleanupConnections, run by the interval: the connections not in use whose
\* timestamp is older than maxAge (any of the idle ones: the model has no clock)
\* are closed and removed
CleanupConnections ==
    /\ \E aged \in SUBSET { j \in 1..Len(connectionPool) : ~connectionPool[j].inUse } :
         /\ aged # {}
         /\ connectionPool' = WithoutIndices(connectionPool, aged)
         /\ clients' = [k \in FtpClients |->
                          IF \E j \in aged : connectionPool[j].client = k
                          THEN "closed" ELSE clients[k]]
    /\ UNCHANGED <<calls, acquired, pathVars, mappingVars, transformVars, wizardVars,
                   integration, contextVars>>

FtpInit ==
    /\ FtpIdle
    /\ ContextIdle
    /\ MappingInit
    /\ WizardDataInit
    /\ PathIdle
    /\ TransformIdle

FtpNext ==
    \/ \E c \in Calls : WithRetry(c)
    \/ \E c \in Calls : PwdResolved(c)
    \/ \E c \in Calls : PwdRejected(c)
    \/ \E c \in Calls : SpliceStale(c)
    \/ \E c \in Calls : AccessResolved(c)
    \/ \E c \in Calls : AccessRejected(c)
    \/ \E c \in Calls : OperationResolved(c)
    \/ \E c \in Calls : OperationRejected(c)
    \/ \E c \in Calls : DelayElapsed(c)
    \/ CleanupConnections

SpecFtp == FtpInit /\ [][FtpNext]_vars

----------------------------------------------------------------------------
\* Properties of getDataFromPath (checked under SpecPath)

IsPlainObject(x) == x.t = "obj"
\* a segment that is a bare field name: no brackets (and no dot, by the split)
PlainSeg(seg) == ~Includes(seg, "[") /\ ~Includes(seg, "]")
\* a segment of the form name[N] with a non-empty name and a decimal N
IndexedSeg(seg) ==
    LET pieces == Split(seg, "[") IN
    /\ Len(pieces) = 2
    /\ pieces[1] # <<>> /\ PlainSeg(pieces[1])
    /\ Len(pieces[2]) >= 2
    /\ pieces[2][Len(pieces[2])] = "]"
    /\ \A j \in 1..(Len(pieces[2]) - 1) : IsDigit(pieces[2][j])
SegName(seg) == Join(Split(seg, "[")[1])
RECURSIVE Decimal(_)
Decimal(ds) ==
    IF ds = <<>> THEN 0 ELSE Decimal(SubSeq(ds, 1, Len(ds) - 1)) * 10 + DigitVal(ds[Len(ds)])
SegIndex(seg) ==
    LET tail == Split(seg, "[")[2] IN Decimal(SubSeq(tail, 1, Len(tail) - 1))
PathParts == Split(pPath, ".")

\* C3: array broadcast -- for a two-segment path "f.g" where root[f] is an
\* array of objects reached without an index, the result is the array whose
\* i-th element is root[f][i][g]  ({items:[{a:1},{a:2}]}, "items.a" gives [1,2]).
C3_ArrayBroadcast ==
    (/\ pPc = "done"
     /\ IsPlainObject(pRoot)
     /\ Len(PathParts) = 2
     /\ \A j \in 1..2 : PathParts[j] # <<>> /\ PlainSeg(PathParts[j])
     /\ Join(PathParts[1]) \in DOMAIN pRoot.f
     /\ IsArray(pRoot.f[Join(PathParts[1])])
     /\ \A j \in 1..Len(pRoot.f[Join(PathParts[1])].e) :
            IsPlainObject(pRoot.f[Join(PathParts[1])].e[j]))
    => LET arr == pRoot.f[Join(PathParts[1])]
       IN pResult = Arr([j \in 1..Len(arr.e) |-> GetProp(arr.e[j], Join(PathParts[2]))])

\* C8 (as claimed): path round-trip -- for every object o and every key k
\* present in o (k without '.' or brackets) the result is o[k], a whole array
\* included.
C8_RoundTripAnyKey ==
    (/\ pPc = "done"
     /\ IsPlainObject(pRoot)
     /\ Len(PathParts) = 1
     /\ PlainSeg(pPath)
     /\ Join(pPath) \in DOMAIN pRoot.f)
    => pResult = pRoot.f[Join(pPath)]

\* C8 (amended): path round-trip for every NON-EMPTY key k of o without '.'
\* or brackets: the result is o[k], and an array o[k] is returned whole.
C8_RoundTrip ==
    (/\ pPc = "done"
     /\ IsPlainObject(pRoot)
     /\ pPath # <<>>
     /\ Len(PathParts) = 1
     /\ PlainSeg(pPath)
     /\ Join(pPath) \in DOMAIN pRoot.f)
    => pResult = pRoot.f[Join(pPath)]

C8_Witness ==
    /\ pPc = "done"
    /\ pRoot = RootMixedItems
    /\ pPath = SegItems
    /\ IsArray(pResult) /\ Len(pResult.e) = 3

C18_NoSegmentLost ==
    (/\ pPc = "done"
     /\ IsPlainObject(pRoot)
     /\ Len(PathParts) = 3
     /\ \A j \in 1..3 : PathParts[j] # <<>> /\ PlainSeg(PathParts[j])
     /\ Join(PathParts[1]) \in DOMAIN pRoot.f
     /\ IsArray(pRoot.f[Join(PathParts[1])]))
    => LET arr == pRoot.f[Join(PathParts[1])]
           mapped == MapOptionalProp(arr, Join(PathParts[2]))
       IN pResult = MapOptionalProp(mapped, Join(PathParts[3]))

\* C19: getDataFromPath never returns undefined -- a resolution that ends on a
\* missing value (a field the object does not have, the last segment
\* included) gives null.
C19_NeverUndefined ==
    pPc = "done" => pResult # Undef

----------------------------------------------------------------------------
\* Properties of the transform (checked under SpecTransform)

ValidRecord == tProduct.t = "obj"
EmittedMetafields(preview) ==
    IF "metafields" \in DOMAIN preview THEN preview["metafields"] ELSE <<>>
Emits(preview, metafield) ==
    \E j \in 1..Len(EmittedMetafields(preview)) : EmittedMetafields(preview)[j] = metafield
DetailMappings == PersistedMetafieldMappings(metafieldMappings)

\* a complete Single mapping whose source field is defined in the record
DefinedSingle(m) ==
    /\ m.mappingType = "single"
    /\ m.sourceKey # "" /\ m.metafieldNamespace # "" /\ m.metafieldKey # ""
    /\ m.metafieldType # ""
    /\ GetProp(tProduct, m.sourceKey) # Undef
SingleMetafield(m) ==
    Metafield(m.metafieldNamespace, Str(m.metafieldKey), m.metafieldType,
              GetProp(tProduct, m.sourceKey))

\* C4: a Single metafield mapping emits its metafield whenever
\* record[sourceKey] is defined, also when the value is falsy (false, 0, ""):
\* {inStock:false} with sourceKey "inStock" emits a metafield of value false.
C4_SingleEmitsWhenDefined ==
    /\ (tPreview # Pending /\ ValidRecord) =>
            \A i \in 1..Len(metafieldMappings) :
                DefinedSingle(metafieldMappings[i])
                    => Emits(tPreview, SingleMetafield(metafieldMappings[i]))
    /\ (tDetailPreview # Pending /\ ValidRecord) =>
            \A i \in 1..Len(DetailMappings) :
                DefinedSingle(DetailMappings[i])
                    => Emits(tDetailPreview, SingleMetafield(DetailMappings[i]))

\* the metafields a DynamicFromArray mapping is specified to emit: one per
\* element that is an object with both fields defined
RECURSIVE SpecifiedDynamic(_, _)
SpecifiedDynamic(items, m) ==
    IF items = <<>> THEN <<>>
    ELSE (IF /\ Head(items).t \in {"obj", "arr"}
             /\ GetProp(Head(items), m.arrayKeySource) # Undef
             /\ GetProp(Head(items), m.arrayValueSource) # Undef
          THEN << Metafield(m.metafieldNamespace, GetProp(Head(items), m.arrayKeySource),
                            m.metafieldType, GetProp(Head(items), m.arrayValueSource)) >>
          ELSE <<>>) \o SpecifiedDynamic(Tail(items), m)

RECURSIVE SpecifiedDynamicAll(_)
SpecifiedDynamicAll(mappings) ==
    IF mappings = <<>> THEN <<>>
    ELSE (IF IsArray(GetProp(tProduct, Head(mappings).sourceKey))
          THEN SpecifiedDynamic(GetProp(tProduct, Head(mappings).sourceKey).e, Head(mappings))
          ELSE <<>>) \o SpecifiedDynamicAll(Tail(mappings))

AllDynamic ==
    \A i \in 1..Len(metafieldMappings) :
        /\ metafieldMappings[i].mappingType = "dynamic_from_array"
        /\ metafieldMappings[i].sourceKey # ""

\* C5: a DynamicFromArray mapping emits exactly one metafield for each element
\* of record[sourceKey] that is an object with both element[arrayKeySource] and
\* element[arrayValueSource] defined (a key of 0 or "" counts), and nothing
\* for every other element.
C5_DynamicEmitsPerDefinedElement ==
    (tPreview # Pending /\ ValidRecord /\ AllDynamic)
        => EmittedMetafields(tPreview) = SpecifiedDynamicAll(metafieldMappings)

\* the source keys the mapping state refers to
ReferencedKeys ==
    {titleKey}
        \cup { Lookup(optionalFieldKeys, activeOptionalFields[i]) :
                    i \in 1..Len(activeOptionalFields) }
        \cup { metafieldMappings[i].sourceKey : i \in 1..Len(metafieldMappings) }

RECURSIVE KeepKeys(_, _)
KeepKeys(keys, keep) ==
    IF keys = <<>> THEN <<>>
    ELSE (IF Head(keys) \in keep THEN <<Head(keys)>> ELSE <<>>) \o KeepKeys(Tail(keys), keep)

\* the record without the source fields the mapping state does not refer to
ReferencedPart(record) ==
    Obj(KeepKeys(record.k, ReferencedKeys),
        [x \in (DOMAIN record.f) \cap ReferencedKeys |-> record.f[x]])

\* C10: the transform output contains only what the mapping refers to -- a
\* source field that is not the titleKey, not the mapped key of an active
\* optional field and not the sourceKey of a metafield mapping has no effect
\* on the output, in the wizard preview and in the detail preview alike
\* ({sku,title,price} with titleKey "title" gives {title:"Widget"}).
C10_OnlyReferencedFields ==
    /\ (tPreview # Pending /\ ValidRecord) =>
            tPreview = generatePreviewForProduct(ReferencedPart(tProduct), titleKey,
                            optionalFieldKeys, activeOptionalFields, metafieldMappings)
    /\ (tDetailPreview # Pending /\ ValidRecord) =>
            tDetailPreview = generatePreviewForProductDetail(ReferencedPart(tProduct),
                            FinalMapping(titleKey, optionalFieldKeys, activeOptionalFields),
                            DetailMappings)
    /\ (/\ tProduct = RecWidget /\ titleKey = "title"
        /\ activeOptionalFields = <<>> /\ metafieldMappings = <<>>) =>
            /\ tPreview # Pending => tPreview = [title |-> Str("Widget")]
            /\ tDetailPreview # Pending => tDetailPreview = [title |-> Str("Widget")]

----------------------------------------------------------------------------
\* Properties of the wizard (checked under Spec)

\* C1: in every reachable wizard state every source key held in the mapping
\* state -- titleKey, every value of optionalFieldKeys and the sourceKey of
\* every entry of metafieldMappings -- is empty or a value of the current
\* mappingOptions.
C1_SourceKeysAreOptions ==
    LET valid == OptionValues(mappingOptions) \cup {""} IN
    /\ titleKey \in valid
    /\ \A field \in DOMAIN optionalFieldKeys : optionalFieldKeys[field] \in valid
    /\ \A i \in 1..Len(metafieldMappings) : metafieldMappings[i].sourceKey \in valid

\* a step in which processRemoteData ran: a successful download or a data path edit
ProcessStep ==
    \/ downloadStatus = "pending" /\ downloadStatus' = "success"
    \/ dataPath' # dataPath

\* C2: validation is idempotent -- running processRemoteData once more on
\* the same document and data path, from the state the first run left, yields
\* the same titleKey, optionalFieldKeys, activeOptionalFields and
\* metafieldMappings.
C2_ValidationIdempotent ==
    [][ProcessStep =>
        LET again == processRemoteData(CurrentState', remoteData', dataPath') IN
        /\ again.titleKey = titleKey'
        /\ again.optionalFieldKeys = optionalFieldKeys'
        /\ again.activeOptionalFields = activeOptionalFields'
        /\ again.metafieldMappings = metafieldMappings']_vars

\* the optional fields and the source keys a suggestion names
NamedFields(suggested) ==
    { suggested.optionalFieldKeys[i][1] : i \in 1..Len(suggested.optionalFieldKeys) }
NamedSourceKeys(suggested) ==
    { suggested.metafieldMappings[i].sourceKey : i \in 1..Len(suggested.metafieldMappings) }

\* the step applied the response `suggested` of the pending request
AiApplied(suggested) ==
    /\ aiRequest.pending /\ ~aiRequest'.pending
    /\ <<titleKey', optionalFieldKeys', activeOptionalFields', metafieldMappings'>> =
            LET result == AiMapResult(aiRequest, suggested)
            IN <<result.titleKey, result.optionalFieldKeys, result.activeOptionalFields,
                 result.metafieldMappings>>

\* C6: applying an AI suggestion merges and never replaces -- every metafield
\* mapping, optional-field key and active optional field that existed before
\* and is not named by the suggestion is still present afterwards, also when
\* the suggestion carries no metafieldMappings array.
C6_AiMergeKeepsExisting ==
    [][\A suggested \in AiSuggestions :
        AiApplied(suggested) =>
            /\ \A i \in 1..Len(metafieldMappings) :
                    metafieldMappings[i].sourceKey \notin NamedSourceKeys(suggested)
                        => \E j \in 1..Len(metafieldMappings') :
                                metafieldMappings'[j] = metafieldMappings[i]
            /\ \A field \in (DOMAIN optionalFieldKeys) \ NamedFields(suggested) :
                    Lookup(optionalFieldKeys', field) = optionalFieldKeys[field]
            /\ SeqToSet(activeOptionalFields) \subseteq SeqToSet(activeOptionalFields')]_vars

\* an optional-field suggestion <<field, sourceKey>> that has to be dropped
DroppedEntry(entry, options) ==
    entry[1] \notin DOMAIN fieldConstants \/ entry[2] \notin options

\* a metafield suggestion that has to be dropped; an array of objects is a
\* non-empty array whose first element is a non-null object
DroppedSuggestion(mf, options, data) ==
    \/ mf.sourceKey \notin options
    \/ mf.mappingType = "" \/ mf.metafieldNamespace = "" \/ mf.metafieldType = ""
    \/ mf.mappingType = "single" /\ mf.metafieldKey = ""
    \/ /\ mf.mappingType = "dynamic_from_array"
       /\ \/ mf.arrayKeySource = "" \/ mf.arrayValueSource = ""
          \/ LET source == GetProp(data, mf.sourceKey) IN
                \/ ~IsArray(source)
                \/ source.e = <<>>
                \/ ~TypeofObject(source.e[1]) \/ source.e[1] = Null
                \/ mf.arrayKeySource \notin SeqToSet(ObjectKeys(source.e[1]))
                \/ mf.arrayValueSource \notin SeqToSet(ObjectKeys(source.e[1]))

RECURSIVE KeptSuggestions(_, _, _)
KeptSuggestions(mappings, options, data) ==
    IF mappings = <<>> THEN <<>>
    ELSE (IF DroppedSuggestion(Head(mappings), options, data) THEN <<>>
          ELSE <<Head(mappings)>>) \o KeptSuggestions(Tail(mappings), options, data)

\* C24: AI suggestions are validated entry by entry -- an optional-field
\* suggestion with an unknown field identifier or a source key that is not an
\* option, a metafield suggestion with an unknown sourceKey or a missing
\* required attribute, and a dynamic_from_array suggestion whose source is not
\* an array of objects or whose arrayKeySource / arrayValueSource is not a key
\* of the first element are dropped, and every other suggestion of the same
\* response (title, optional fields, metafield mappings) is applied.
C24_SuggestionsValidatedOneByOne ==
    [][(aiRequest.pending /\ ~aiRequest'.pending) =>
       \A suggested \in AiSuggestions :
        AiApplied(suggested) =>
            LET options == OptionValues(aiRequest.mappingOptions)
                data == aiRequest.processedPreviewData
            IN
            /\ suggested.titleKey \in options => titleKey' = suggested.titleKey
            /\ \A i \in 1..Len(suggested.optionalFieldKeys) :
                    LET entry == suggested.optionalFieldKeys[i] IN
                    IF DroppedEntry(entry, options)
                    THEN /\ Lookup(optionalFieldKeys', entry[1]) = Lookup(optionalFieldKeys, entry[1])
                         /\ entry[1] \in SeqToSet(activeOptionalFields')
                                => entry[1] \in SeqToSet(activeOptionalFields)
                    ELSE /\ Lookup(optionalFieldKeys', entry[1]) = entry[2]
                         /\ entry[1] \in SeqToSet(activeOptionalFields')
            /\ suggested.hasMetafieldMappings =>
                    [i \in 1..Len(metafieldMappings') |-> [metafieldMappings'[i] EXCEPT !.id = ""]]
                        = KeptSuggestions(suggested.metafieldMappings, options, data)]_vars

\* a response was applied that held a valid optional field, a valid single
\* mapping and suggestions that had to be dropped
C24_Witness ==
    /\ step = 2 /\ ~aiRequest.pending
    /\ titleKey = "title"
    /\ Lookup(optionalFieldKeys, "FIELD_VENDOR") = "sku"
    /\ SeqToSet(activeOptionalFields) = {"FIELD_VENDOR"}
    /\ Lookup(optionalFieldKeys, "vendor") = ""
    /\ Lookup(optionalFieldKeys, "FIELD_SKU") = ""
    /\ Len(metafieldMappings) = 1
    /\ metafieldMappings[1].id = "ai-1"
    /\ metafieldMappings[1].sourceKey = "sku"
    /\ metafieldMappings[1].metafieldKey = "code"

\* C25: an AI response is validated against the option list that is current
\* when it is applied -- also when the data path or the document changed
\* while the request was in flight, the step that applies the response writes
\* no source key into titleKey, optionalFieldKeys or metafieldMappings that is
\* absent from the current mappingOptions.
C25_AppliedAgainstCurrentOptions ==
    [][(aiRequest.pending /\ ~aiRequest'.pending) =>
        LET current == OptionValues(mappingOptions') IN
        /\ titleKey' # titleKey => titleKey' \in current
        /\ \A field \in DOMAIN optionalFieldKeys' :
                optionalFieldKeys'[field] # Lookup(optionalFieldKeys, field)
                    => optionalFieldKeys'[field] \in current
        /\ \A i \in 1..Len(metafieldMappings') :
                (\A j \in 1..Len(metafieldMappings) :
                        metafieldMappings[j] # metafieldMappings'[i])
                    => metafieldMappings'[i].sourceKey \in current]_vars

\* C26: in every reachable wizard state the preview index is valid for the
\* extracted data -- for an array of length n > 0 it lies in 0..n-1, and for a
\* single object it is 0.
C26_PreviewIndexValid ==
    /\ (IsArray(processedPreviewData) /\ Len(processedPreviewData.e) > 0)
            => currentPreviewIndex \in 0..(Len(processedPreviewData.e) - 1)
    /\ IsPlainObject(processedPreviewData) => currentPreviewIndex = 0

\* C27: the integration handed to onFinish always has a non-empty title
\* mapping that is one of the current mappingOptions -- handleSubmit is never
\* reached with titleKey empty or with an empty option list.
C27_TitleMappedAtFinish ==
    integration.submitted =>
        /\ integration.mapping.f[FIELD_TITLE] # Str("")
        /\ mappingOptions # <<>>
        /\ integration.mapping.f[FIELD_TITLE] \in
                { Str(v) : v \in OptionValues(mappingOptions) }

\* C7: whenever processing a document and path yields an empty option list,
\* the whole mapping state is cleared -- titleKey is empty, optionalFieldKeys
\* has no mapped key, activeOptionalFields is empty and metafieldMappings is
\* empty.
C7_EmptyOptionsClearMapping ==
    [][(ProcessStep /\ mappingOptions' = <<>>) =>
        /\ titleKey' = ""
        /\ \A field \in DOMAIN optionalFieldKeys' : optionalFieldKeys'[field] = ""
        /\ activeOptionalFields' = <<>>
        /\ metafieldMappings' = <<>>]_vars

\* the record shown at the current preview index of a multi-record preview
RecordAtIndex == processedPreviewData.e[currentPreviewIndex + 1]
NotAnObject(record) == record.t \in {"null", "undef", "num", "str", "bool"}

\* C11: for every record that is not an object the transform returns the
\* sentinel {error: ...}; in a multi-record preview an invalid record at index i
\* yields the sentinel for index i, and every other index yields the product
\* computed from its own record.
C11_InvalidRecordYieldsSentinel ==
    /\ \A record \in {Null, Undef, Num(0), Num(7), Str(""), Str("x"), Bool(FALSE), Bool(TRUE)} :
            generatePreviewForProduct(record, titleKey, optionalFieldKeys,
                                      activeOptionalFields, metafieldMappings) = ErrorPreview
    /\ (IsArray(processedPreviewData) /\ currentPreviewIndex < Len(processedPreviewData.e)) =>
            mappedPreviewData =
                IF NotAnObject(RecordAtIndex) THEN ErrorPreview
                ELSE generatePreviewForProduct(RecordAtIndex, titleKey, optionalFieldKeys,
                                               activeOptionalFields, metafieldMappings)

\* the two outcomes of a failed extraction
PathEmptyErrors == {ErrNoData, ErrEmptyRoot}
PathShapeError == ErrNotSuitable
\* a present value that is neither an object nor an array of objects
ShapeInvalid(value) ==
    \/ value.t \in {"num", "str", "bool"}
    \/ IsArray(value) /\ (Len(value.e) = 0 \/ value.e[1].t \in {"num", "str", "bool", "arr"})

\* C12: extraction failures are classified -- a path that resolves to null
\* or undefined (a missing last field, an out-of-range index) is reported as
\* the path-empty error, a path that resolves to a present value that is
\* neither an object nor an array of objects as the path-shape error; the
\* shape error is never reported for an absent value, nor the empty error for
\* a present one.
C12_ErrorClassification ==
    [][ProcessStep =>
        /\ IsNullish(processedPreviewData') => dataPathError' \in PathEmptyErrors
        /\ ShapeInvalid(processedPreviewData') => dataPathError' = PathShapeError
        /\ dataPathError' = PathShapeError => ~IsNullish(processedPreviewData')
        /\ dataPathError' \in PathEmptyErrors => IsNullish(processedPreviewData')]_vars

\* the StandardFieldId value of an active field (the constant's value)
FieldIdValue(field) ==
    IF field \in DOMAIN fieldConstants THEN fieldConstants[field] ELSE field
StandardFieldIdValues == {FIELD_TITLE} \cup SeqToSet(FieldConstantValues)

\* the entry of the persisted mapping at the fixed place of a StandardFieldId value
PersistedAt(mapping, idValue) ==
    IF idValue = "seo.title" THEN GetProp(GetProp(mapping, "seo"), "title")
    ELSE IF idValue = "seo.description" THEN GetProp(GetProp(mapping, "seo"), "description")
    ELSE IF idValue = "inventoryItem.cost"
    THEN GetProp(GetProp(mapping, "inventoryItem"), "cost")
    ELSE GetProp(mapping, idValue)

\* C13: on finish every active optional field with a mapped key is persisted
\* at its fixed place in the mapping object (seo.title and seo.description
\* under mapping.seo, inventoryItem.cost under mapping.inventoryItem, every
\* other field at the root under its StandardFieldId value), and no entry is
\* persisted under an identifier that is not a StandardFieldId value.
C13_PersistedAtFixedPlace ==
    integration.submitted =>
        /\ \A i \in 1..Len(activeOptionalFields) :
                LET mappedKey == Lookup(optionalFieldKeys, activeOptionalFields[i]) IN
                mappedKey # "" =>
                    PersistedAt(integration.mapping, FieldIdValue(activeOptionalFields[i]))
                        = Str(mappedKey)
        /\ SeqToSet(integration.mapping.k)
                \subseteq StandardFieldIdValues \cup {"seo", "inventoryItem"}

\* a step in which processRemoteData reconciled the mapping with a non-empty option list
ReconcileStep == ProcessStep /\ mappingOptions' # <<>>

\* C15: title reconciliation with a non-empty option list -- a titleKey that
\* is set and among the options is kept; an empty titleKey is replaced by the
\* first option's value; a titleKey that is set but not among the options is
\* also replaced by the first option's value (not left empty).
C15_TitleReconciliation ==
    [][ReconcileStep =>
        titleKey' = IF titleKey # "" /\ titleKey \in OptionValues(mappingOptions')
                    THEN titleKey
                    ELSE mappingOptions'[1].value]_vars

\* C16: when reconciliation runs with a non-empty option list, an optional
\* field whose mapped key is no longer among the options has its key reset to
\* the empty string and remains in activeOptionalFields; reconciliation with
\* non-empty options never removes a field from activeOptionalFields.
C16_ActiveFieldsKept ==
    [][ReconcileStep =>
        /\ activeOptionalFields' = activeOptionalFields
        /\ \A i \in 1..Len(activeOptionalFields) :
                LET field == activeOptionalFields[i] IN
                Lookup(optionalFieldKeys, field) \notin OptionValues(mappingOptions')
                    => Lookup(optionalFieldKeys', field) = ""]_vars

C21_TitleKeyIffMapped ==
    (tPreview # Pending /\ ValidRecord) =>
        ("title" \in DOMAIN tPreview
            <=> (titleKey # "" /\ GetProp(tProduct, titleKey) # Undef))

\* a group or list the preview holds, when it holds one
HoldsEmpty(preview) ==
    \/ "seo" \in DOMAIN preview /\ preview["seo"] = EmptyObject
    \/ "inventoryItem" \in DOMAIN preview /\ preview["inventoryItem"] = EmptyObject
    \/ "metafields" \in DOMAIN preview /\ preview["metafields"] = <<>>

\* an active optional field, mapped and defined in the record, whose fixed
\* placement is in the group
PlacedInGroup(group) ==
    \E f \in SeqToSet(activeOptionalFields) :
        /\ Lookup(optionalFieldKeys, f) # ""
        /\ GetProp(tProduct, Lookup(optionalFieldKeys, f)) # Undef
        /\ PlacementOfValue(FieldIdValue(f)).target = group

----------------------------------------------------------------------------
\* Properties of the wizard opened with a saved integration (checked under SpecEdit)

\* the value the preview holds at a placement, undefined when there is none
ValueAt(preview, placement) ==
    IF placement.target = "root"
    THEN IF placement.key \in DOMAIN preview THEN preview[placement.key] ELSE Undef
    ELSE IF placement.target \in DOMAIN preview
                /\ placement.key \in DOMAIN preview[placement.target]
         THEN preview[placement.target][placement.key]
         ELSE Undef

\* the active optional fields that are mapped to a field the record has
PlaceableFields ==
    { f \in SeqToSet(activeOptionalFields) :
        /\ Lookup(optionalFieldKeys, f) # ""
        /\ GetProp(tProduct, Lookup(optionalFieldKeys, f)) # Undef }

\* what the preview holds besides the title and the metafields
PlacedEntries(preview) ==
    { <<Place("root", k), preview[k]>> :
        k \in DOMAIN preview \ {"title", "metafields", "seo", "inventoryItem"} }
    \cup UNION { { <<Place(g, k), preview[g][k]>> : k \in DOMAIN preview[g] } :
                    g \in DOMAIN preview \cap {"seo", "inventoryItem"} }

\* C22: every active optional field whose mapped key is set and whose value
\* in the record is defined is placed at the fixed placement of its
\* StandardFieldId (root key, or sub-key of seo / inventoryItem) and nowhere
\* else, for fields of the mapping step and for fields from initialData.
C22_ActiveFieldsPlaced ==
    (tPreview # Pending /\ ValidRecord) =>
        /\ \A f \in PlaceableFields :
                ValueAt(tPreview, PlacementOfValue(FieldIdValue(f)))
                    = GetProp(tProduct, Lookup(optionalFieldKeys, f))
        /\ PlacedEntries(tPreview) \subseteq
                { <<PlacementOfValue(FieldIdValue(f)),
                    GetProp(tProduct, Lookup(optionalFieldKeys, f))>> : f \in PlaceableFields }

\* the step mounts the wizard with the integration handleSubmit built
ReopenStep ==
    /\ integration.submitted /\ step = 4 /\ step' = 0
    /\ titleKey' = InitialTitleKey(integration)
    /\ optionalFieldKeys' = InitialKeysFrom(integration)
    /\ activeOptionalFields' = InitialActiveFrom(integration, InitialFieldOrder)
    /\ metafieldMappings' = InitialMetafieldMappings(integration)

\* C28: save / load round trip of the mapping -- building the integration with
\* handleSubmit and opening the wizard again with it as initialData restores
\* the same titleKey, the same set of active optional fields (by their
\* StandardFieldId) with the same mapped keys, and the same metafield mappings
\* up to the dropped id.
C28_SaveLoadRoundTrip ==
    [][ReopenStep =>
        /\ titleKey' = titleKey
        /\ { FieldIdValue(f) : f \in SeqToSet(activeOptionalFields') }
                = { FieldIdValue(f) : f \in SeqToSet(activeOptionalFields) }
        /\ \A f \in SeqToSet(activeOptionalFields) :
                \E g \in SeqToSet(activeOptionalFields') :
                    /\ FieldIdValue(g) = FieldIdValue(f)
                    /\ Lookup(optionalFieldKeys', g) = Lookup(optionalFieldKeys, f)
        /\ metafieldMappings' =
                [i \in 1..Len(metafieldMappings) |-> [metafieldMappings[i] EXCEPT !.id = ""]]
       ]_vars

----------------------------------------------------------------------------
\* Properties of option discovery (checked under SpecDiscovery)

OptionsOfKeys(keys) == [i \in 1..Len(keys) |-> [label |-> keys[i], value |-> keys[i]]]

\* C20: option discovery -- for an extracted non-array object the options are
\* its own keys in key order, label equal to value; for a non-empty array
\* whose first element is a non-null, non-array object they are the keys of
\* that element; for every other extracted value (null, scalar, empty array,
\* array starting with null, a scalar or an array) the option list is empty.
C20_OptionDiscovery ==
    downloadStatus = "success" =>
        LET extracted == getDataFromPath(remoteData, dataPath)
        IN mappingOptions =
            IF IsPlainObject(extracted) THEN OptionsOfKeys(extracted.k)
            ELSE IF IsArray(extracted) /\ Len(extracted.e) > 0
                        /\ IsPlainObject(extracted.e[1])
            THEN OptionsOfKeys(extracted.e[1].k)
            ELSE <<>>

----------------------------------------------------------------------------
\* Properties of the integration context (checked under SpecContext)

Occurrences(list, item) == Cardinality({ i \in 1..Len(list) : list[i] = item })

\* the step settled the save call `call` with `response`
SaveSettledWith(call, response) ==
    /\ call \in apiCalls /\ call.op = "save"
    /\ apiCalls' = apiCalls \ {call}
    /\ integrations' = AfterResponse(integrations, response)

\* C14: after addIntegration completes with a successful response carrying
\* data, the list holds the server's record, exactly once, in place of the
\* locally added one, also when the server-generated id differs from the
\* client-generated id.
C14_AddHoldsServerRecord ==
    [][\A call \in { c \in apiCalls : c.op = "save" } :
       \A response \in ApiResponses(call.integration) :
        (/\ SaveSettledWith(call, response)
         /\ response.success /\ response.data # Null
         /\ Occurrences(integrations, call.integration) = 1)
            => /\ Occurrences(integrations', response.data) = 1
               /\ Occurrences(integrations', call.integration) = 0]_vars

----------------------------------------------------------------------------
\* Properties of the FTP connection pool (checked under SpecFtp)

PoolClients(pool) == { pool[j].client : j \in 1..Len(pool) }

\* the step of call c that follows the await of _closeConnection in the stale
\* branch of _getConnection
StaleSpliceStep(c) == calls[c].pc = "splice" /\ calls'[c].pc = "access"

\* C29: when _getConnection has found a pooled connection stale, the splice
\* removes exactly that connection from the pool, whatever the other calls and
\* cleanupConnections did to the pool while pwd() and _closeConnection were
\* awaited: no other connection goes in its place and no closed connection
\* stays in the pool marked inUse.
C29_StaleConnectionRemoved ==
    [][\A c \in Calls :
          StaleSpliceStep(c) =>
              /\ PoolClients(connectionPool') = PoolClients(connectionPool) \ {calls[c].client}
              /\ \A j \in 1..Len(connectionPool') :
                     ~(connectionPool'[j].inUse
                          /\ clients'[connectionPool'[j].client] = "closed")
      ]_vars

CallEnded(call) == call.pc \in {"returned", "failed", "aborted"}

\* C30: when a _withRetry call ends (result returned, failed after
\* maxRetries + 1 attempts, or aborted on a wrong-password error), every
\* connection it acquired is closed or is in the pool with inUse = false.
C30_ConnectionsAccounted ==
    [][\A c \in Calls :
          (~CallEnded(calls[c]) /\ CallEnded(calls'[c])) =>
              \A k \in acquired'[c] :
                  \/ clients'[k] = "closed"
                  \/ \E j \in 1..Len(connectionPool') :
                         connectionPool'[j].client = k /\ ~connectionPool'[j].inUse
      ]_vars

====
